---- MODULE Spec2Model ----
(***************************************************************************)
(* A model of redmine-analytics' API client, login and data processing:    *)
(*   src/src/redmine_client.py  RedmineClient._check_rate_limit,           *)
(*                              _make_request, _handle_response,           *)
(*                              _get_paginated_response, the cached        *)
(*                              fetches, invalidate_cache,                 *)
(*                              get_project_tree and                       *)
(*                              get_time_entries_for_project               *)
(*   src/src/cache.py           CacheManager                               *)
(*   src/src/frontend/auth.py, src/src/frontend/components/auth.py         *)
(*                              Authenticator                              *)
(*   src/src/data_processor.py  DataProcessor.process_time_entries and     *)
(*                              analyze_project_status                     *)
(*                                                                         *)
(* Time is discrete: one second is TicksPerSecond ticks of the clock `now`.*)
(* time.time() reads `now`; time.sleep(d) parks the thread until the clock *)
(* has advanced by d ticks (clockOK), or for any time at all when the      *)
(* clock is anomalous (~clockOK: a mocked sleep, a clock that stands still).*)
(***************************************************************************)
EXTENDS Integers, Sequences, FiniteSets, TLC

\* ------------------------------------------------------------------ bounds
TicksPerSecond == 2
MaxTime == 7
MaxBurst == 2
MaxRetryAfter == 1
MaxCacheTime == 3
MaxTtl == 1
MaxPages == 3
MaxPageLen == 2
MaxErrors == 2
MaxFetchTicks == 2
MaxProjects == 3
MaxDepth == 4
MaxEntries == 2
MaxIssues == 2
MaxDate == 3

\* ------------------------------------------------------- program constants
max_attempts == 10
max_retries == 3
retry_delay == 1 * TicksPerSecond
Window == 1 * TicksPerSecond
limit == 100

Threads == {1, 2}

\* How far back the history of granted timestamps reaches: past the window and
\* past every configured gap.
Horizon == Window + 1

\* 1 / rate_limit_per_second, in ticks: rates of TicksPerSecond, 1 and
\* TicksPerSecond / (TicksPerSecond + 1) requests per second.
Gaps == {1, TicksPerSecond, TicksPerSecond + 1}

\* The statuses a server answers with, and a request that never gets an answer.
Outcomes == {"ok", "429", "http_error", "transport"}

\* The Retry-After header of a 429 response: absent, or a number of seconds.
RetryAfterHeaders == {<<>>} \cup {<<n>> : n \in 0..MaxRetryAfter}

VARIABLES
  now,                \* time.time()
  clockOK,            \* sleeps last at least as long as asked
  active,             \* the threads that use the client
  rate_limit_burst,   \* self.rate_limit_burst
  required_gap,       \* 1.0 / self.rate_limit_per_second
  request_times,      \* self._request_times
  last_request_time,  \* self._last_request_time
  thread,             \* each thread's position, locals and the history of its call
  granted,            \* history: the timestamps granted in the last Horizon ticks, in order
  lost,               \* history: a store to _request_times dropped a timestamp of the window
  cache,              \* CacheManager._cache: a dict of CacheEntry
  lock,               \* CacheManager._lock: the thread that holds it, or NoThread
  cthread,            \* each thread's position and locals inside CacheManager
  lastSet,            \* history: per key, the latest set not invalidated or cleared since
  server,             \* the upstream API's collection, as it serves it page by page
  pg,                 \* _get_paginated_response's frame and the history of its call
  cache_enabled,      \* self._cache_enabled
  cache_ttl_arg,      \* the constructor's cache_ttl argument
  cache_ttl,          \* self._cache_ttl
  last_list,          \* history: the latest get_projects or get_users that returned a list
  fetch,              \* the frame of a fetch operation of the client, and its history
  authenticator,      \* which of the two Authenticator classes the application uses
  session,            \* st.session_state: authenticated, username, user_role
  submitted,          \* history: the last operation on the session and its result
  response,           \* a requests.Response: status_code and body
  handled,            \* what _handle_response did with it
  projects,           \* the upstream API's projects, as projects.json lists them
  tree,               \* get_project_tree's frame and the history of its call
  walk,               \* get_time_entries_for_project's call stack and history
  time_entries,       \* the raw time entries handed to the DataProcessor
  processed,          \* what process_time_entries made of them
  issues,             \* the raw issues handed to analyze_project_status
  analysis            \* what analyze_project_status made of them

limiterVars == <<rate_limit_burst, required_gap, request_times, last_request_time>>
configVars == <<clockOK, active, rate_limit_burst, required_gap>>
clientVars == <<now, clockOK, active, limiterVars, thread, granted, lost>>

cacheVars == <<cache, lock, cthread, lastSet>>

pageVars == <<server, pg>>
fetchVars == <<cache_enabled, cache_ttl_arg, cache_ttl, last_list, fetch>>
authVars == <<authenticator, session, submitted>>
respVars == <<response, handled>>
treeVars == <<projects, tree, walk>>
dataVars == <<time_entries, processed, issues, analysis>>
libVars == <<treeVars, dataVars>>
extVars == <<pageVars, fetchVars, authVars, respVars, libVars>>

vars == <<clientVars, cacheVars, extVars>>

\* A thread outside the client: no frame, no locals.
\*   pc            position
\*   caller        who called _check_rate_limit: "direct" or "request"
\*   current_time, cutoff_time, rl_attempt   _check_rate_limit's locals
\*   pruned        the list comprehension's value, not yet stored
\*   wake_at, sleep_len   the running time.sleep: when it is over, its argument
\*   attempt       _make_request's loop variable
\*   result        how the top-level call ended
\*   header        the Retry-After header of the 429 response being slept on
\*   outcomes, sleeps, req_grants   history of the logical request: the outcome
\*                 of each HTTP GET, _make_request's own sleeps, acquisitions granted
IdleThread ==
  [pc |-> "idle", caller |-> "none", current_time |-> 0, cutoff_time |-> 0,
   rl_attempt |-> 0, pruned |-> <<>>, wake_at |-> 0, sleep_len |-> 0,
   attempt |-> 0, result |-> "none", outcomes |-> <<>>, sleeps |-> <<>>,
   req_grants |-> 0, header |-> <<>>]

\* ----------------------------------------------------------------- helpers
\* [t for t in self._request_times if t > cutoff_time]
Prune(times, cutoff) ==
  LET Keep(x) == x > cutoff IN SelectSeq(times, Keep)

\* The number of entries of a sequence of timestamps inside the window (lo, hi].
CountIn(times, lo, hi) ==
  Cardinality({i \in 1..Len(times) : times[i] > lo /\ times[i] <= hi})

\* sizes[1] + ... + sizes[k]
RECURSIVE SumTo(_, _)
SumTo(sizes, k) == IF k = 0 THEN 0 ELSE SumTo(sizes, k - 1) + sizes[k]

\* int(response.headers.get('Retry-After', retry_delay)), in ticks.
RetryAfter(header) ==
  IF header = <<>> THEN retry_delay ELSE header[1] * TicksPerSecond

\* time.sleep(d): the thread is parked at `where` until the sleep is over.
Sleep(th, d, where) ==
  [th EXCEPT !.pc = where, !.wake_at = now + d, !.sleep_len = d]

\* time.sleep returns: the clock has advanced by the slept time, unless it is anomalous.
Awake(t) == clockOK => now >= thread[t].wake_at

Sleeping == {"rl_burst_sleep", "rl_rate_sleep", "mr_sleep429", "mr_backoff"}

\* The call returns or raises to its top-level caller.
Finish(th, how) ==
  [th EXCEPT !.pc = "done", !.result = how, !.current_time = 0, !.cutoff_time = 0,
             !.pruned = <<>>, !.wake_at = 0, !.sleep_len = 0, !.header = <<>>]

\* ------------------------------------------------------------ CacheManager
\* The keys and payloads the callers use, and the ttl they pass, in seconds.
Keys == {"activities", "issue_statuses"}
Values == {"v1", "v2"}
Ttls == 0..MaxTtl

NoThread == 0

\* CacheEntry(data, timestamp, ttl)
CacheEntry(data, timestamp, ttl) == [data |-> data, timestamp |-> timestamp, ttl |-> ttl]

\* A dict is a function on the keys it holds.
EmptyDict == [k \in {} |-> CacheEntry("None", 0, 0)]
DictSet(d, key, e) == [k \in DOMAIN d \cup {key} |-> IF k = key THEN e ELSE d[k]]
DictPop(d, key) == [k \in DOMAIN d \ {key} |-> d[k]]

\* time() - entry.timestamp > entry.ttl, the ttl being in seconds.
Expired(e, at) == at - e.timestamp > e.ttl * TicksPerSecond

\* A thread outside the CacheManager.
\*   pc      position: "acquire" waits at `with self._lock:`, "release" leaves the block
\*   op, key, value, ttl   the method called and its arguments
\*   entry   get's local
\*   ret     the value the method returns
\*   at      history: the time() the method read
\*   before  history: the dict as the method found it
IdleCacheThread ==
  [pc |-> "idle", op |-> "none", key |-> "none", value |-> "None", ttl |-> 0,
   entry |-> CacheEntry("None", 0, 0), ret |-> "None", at |-> 0, before |-> EmptyDict]

\* The first statement of each method's with block.
Body(op) ==
  CASE op = "get" -> "get_lookup"
    [] op = "set" -> "set_store"
    [] op = "invalidate" -> "invalidate_pop"
    [] op = "clear" -> "clear_all"

\* A thread calls a method of the CacheManager and arrives at its
\* `with self._lock:`. Nothing of the call shows before the lock is taken, so
\* the method and its arguments are drawn there.
Call(t) ==
  /\ cthread[t].pc = "idle"
  /\ cthread' = [cthread EXCEPT ![t] = [IdleCacheThread EXCEPT !.pc = "acquire"]]
  /\ UNCHANGED <<clientVars, extVars, cache, lock, lastSet>>

\* Acquire with the lock taken whether or not another thread holds it.
Acquire_NoWait(t, op, key, value, ttl) ==
  /\ cthread[t].pc = "acquire"
  /\ lock' = t
  /\ cthread' = [cthread EXCEPT ![t] =
       [IdleCacheThread EXCEPT !.pc = Body(op), !.op = op, !.key = key,
                               !.value = value, !.ttl = ttl]]
  /\ UNCHANGED <<clientVars, extVars, cache, lastSet>>

\* with self._lock: the thread is held until the lock is free, and takes it.
Acquire(t, op, key, value, ttl) ==
  /\ cthread[t].pc = "acquire"
  /\ lock = NoThread
  /\ lock' = t
  /\ cthread' = [cthread EXCEPT ![t] =
       [IdleCacheThread EXCEPT !.pc = Body(op), !.op = op, !.key = key,
                               !.value = value, !.ttl = ttl]]
  /\ UNCHANGED <<clientVars, extVars, cache, lastSet>>

\* get(key), set(key, value, ttl), invalidate(key) and clear() enter their with block.
EnterGet(t) == \E key \in Keys : Acquire(t, "get", key, "None", 0)
EnterSet(t) == \E key \in Keys, value \in Values, ttl \in Ttls : Acquire(t, "set", key, value, ttl)
EnterInvalidate(t) == \E key \in Keys : Acquire(t, "invalidate", key, "None", 0)
EnterClear(t) == Acquire(t, "clear", "none", "None", 0)

\* get, lines 20-22.
GetLookup(t) ==
  /\ cthread[t].pc = "get_lookup"
  /\ cthread' = [cthread EXCEPT ![t] =
       IF @.key \in DOMAIN cache
         THEN [@ EXCEPT !.pc = "get_check", !.entry = cache[cthread[t].key], !.before = cache]
         ELSE [@ EXCEPT !.pc = "release", !.ret = "None", !.at = now, !.before = cache]]
  /\ UNCHANGED <<clientVars, extVars, cache, lock, lastSet>>

\* GetCheck with the test `time() - entry.timestamp >= entry.ttl`.
GetCheck_ExpiresAtTtl(t) ==
  /\ cthread[t].pc = "get_check"
  /\ LET e == cthread[t].entry IN
     IF now - e.timestamp >= e.ttl * TicksPerSecond
       THEN /\ cache' = DictPop(cache, cthread[t].key)
            /\ cthread' = [cthread EXCEPT ![t] = [@ EXCEPT !.pc = "release", !.ret = "None", !.at = now]]
       ELSE /\ cache' = cache
            /\ cthread' = [cthread EXCEPT ![t] = [@ EXCEPT !.pc = "release", !.ret = e.data, !.at = now]]
  /\ UNCHANGED <<clientVars, extVars, lock, lastSet>>

\* GetCheck with a sweep: a get that finds its entry expired drops every
\* expired entry of the dict with it.
GetCheck_Sweeps(t) ==
  /\ cthread[t].pc = "get_check"
  /\ LET e == cthread[t].entry IN
     IF Expired(e, now)
       THEN /\ cache' = [k \in {j \in DOMAIN cache : ~Expired(cache[j], now)} |-> cache[k]]
            /\ cthread' = [cthread EXCEPT ![t] = [@ EXCEPT !.pc = "release", !.ret = "None", !.at = now]]
       ELSE /\ cache' = cache
            /\ cthread' = [cthread EXCEPT ![t] = [@ EXCEPT !.pc = "release", !.ret = e.data, !.at = now]]
  /\ UNCHANGED <<clientVars, extVars, lock, lastSet>>

\* get, lines 24-28.
GetCheck(t) ==
  /\ cthread[t].pc = "get_check"
  /\ LET e == cthread[t].entry IN
     IF Expired(e, now)
       THEN /\ cache' = DictPop(cache, cthread[t].key)
            /\ cthread' = [cthread EXCEPT ![t] = [@ EXCEPT !.pc = "release", !.ret = "None", !.at = now]]
       ELSE /\ cache' = cache
            /\ cthread' = [cthread EXCEPT ![t] = [@ EXCEPT !.pc = "release", !.ret = e.data, !.at = now]]
  /\ UNCHANGED <<clientVars, extVars, lock, lastSet>>

\* set, lines 32-36.
SetStore(t) ==
  /\ cthread[t].pc = "set_store"
  /\ LET e == CacheEntry(cthread[t].value, now, cthread[t].ttl) IN
       /\ cache' = DictSet(cache, cthread[t].key, e)
       /\ lastSet' = DictSet(lastSet, cthread[t].key, e)
  /\ cthread' = [cthread EXCEPT ![t] = [@ EXCEPT !.pc = "release", !.at = now, !.before = cache]]
  /\ UNCHANGED <<clientVars, extVars, lock>>

\* InvalidatePop with the whole dict dropped.
InvalidatePop_All(t) ==
  /\ cthread[t].pc = "invalidate_pop"
  /\ cache' = EmptyDict
  /\ lastSet' = EmptyDict
  /\ cthread' = [cthread EXCEPT ![t] = [@ EXCEPT !.pc = "release", !.at = now, !.before = cache]]
  /\ UNCHANGED <<clientVars, extVars, lock>>

\* invalidate, line 40: self._cache.pop(key, None).
InvalidatePop(t) ==
  /\ cthread[t].pc = "invalidate_pop"
  /\ cache' = DictPop(cache, cthread[t].key)
  /\ lastSet' = DictPop(lastSet, cthread[t].key)
  /\ cthread' = [cthread EXCEPT ![t] = [@ EXCEPT !.pc = "release", !.at = now, !.before = cache]]
  /\ UNCHANGED <<clientVars, extVars, lock>>

\* clear, line 44.
ClearAll(t) ==
  /\ cthread[t].pc = "clear_all"
  /\ cache' = EmptyDict
  /\ lastSet' = EmptyDict
  /\ cthread' = [cthread EXCEPT ![t] = [@ EXCEPT !.pc = "release", !.at = now, !.before = cache]]
  /\ UNCHANGED <<clientVars, extVars, lock>>

\* The with block is left: the lock is released and the method returns.
Release(t) ==
  /\ cthread[t].pc = "release"
  /\ lock' = NoThread
  /\ cthread' = [cthread EXCEPT ![t] = IdleCacheThread]
  /\ UNCHANGED <<clientVars, extVars, cache, lastSet>>

\* The clock of the cache's callers.
CacheTick ==
  /\ now < MaxCacheTime
  /\ now' = now + 1
  /\ UNCHANGED <<configVars, request_times, last_request_time, thread, granted, lost, cacheVars,
                 extVars>>

\* ------------------------------------------------ frames of the callers
\* Python's None among values that are sequences.
None == <<"None">>

\* _get_paginated_response outside a call: no frame.
\*   pc          "await": at line 134, before or inside _make_request
\*   offset, total_count, all_items   the locals; total_count is <<>> while it
\*               is None, before the first response
\*   params      the caller's params argument; NoParams is None
\*   requests    history: the calls of _make_request that have come back
\*   sent        history: the page_params of each call of _make_request
\*   result      how the call ended: "returned" or the exception that left it
\*   returned    what the caller received
NoParams == [k \in {} |-> 0]

IdlePage ==
  [pc |-> "idle", params |-> NoParams, offset |-> 0, total_count |-> <<>>,
   all_items |-> <<>>, requests |-> 0, sent |-> <<>>, result |-> "none",
   returned |-> <<>>]

\* No collection is being fetched.
PageIdle ==
  /\ server = [sizes |-> <<>>, total_count |-> <<>>, stated |-> <<>>, log |-> <<>>]
  /\ pg = IdlePage

\* Lines 50-55: the ttl of each key, in seconds, before the constructor's overrides.
DefaultCacheTtl ==
  [k \in {"activities", "issue_statuses", "issue_priorities", "users", "projects"} |->
     IF k \in {"users", "projects"} THEN 3600 ELSE 3600 * 24]

\* A fetch operation of the client outside a call.
\*   pc           position
\*   op, key      the method called and its cache_key
\*   arg          invalidate_cache's key: <<>> for None, <<key>> for a key
\*   cached_data  line 251's local
\*   ret          what the caller received
\*   result       "returned", or the exception that left the method
\*   requested    history: the operation went to the API
\*   found        history: the entry the cache held for the key at the lookup
\*   at           history: the time of the lookup
\*   before       history: the cache as the operation found it
\*   was_set, was_listed   history: lastSet and last_list as the operation found them
IdleFetch ==
  [pc |-> "idle", op |-> "none", key |-> "none", arg |-> <<>>, cached_data |-> "None",
   ret |-> "None", result |-> "none", requested |-> FALSE, found |-> <<>>, at |-> 0,
   before |-> EmptyDict, was_set |-> EmptyDict, was_listed |-> <<>>]

\* cache_ttl = None
NoTtlArg == [k \in {} |-> 0]

\* {**defaults, **(cache_ttl or {})}
Merge(defaults, arg) ==
  [k \in DOMAIN defaults \cup DOMAIN arg |-> IF k \in DOMAIN arg THEN arg[k] ELSE defaults[k]]

\* No fetch operation is running; the cache is on, with the default ttls.
FetchIdle ==
  /\ cache_enabled = TRUE
  /\ cache_ttl_arg = NoTtlArg
  /\ cache_ttl = DefaultCacheTtl
  /\ last_list = <<>>
  /\ fetch = IdleFetch

\* A str is the sequence of its pieces: words, and " " for white space.
\* st.session_state holds authenticated, username and user_role once
\* `initialized`; before that the keys are absent.
Session(authenticated, username, user_role) ==
  [initialized |-> TRUE, authenticated |-> authenticated, username |-> username,
   user_role |-> user_role]

\* st.session_state before anything wrote to it.
EmptySession == [Session(FALSE, None, None) EXCEPT !.initialized = FALSE]

\* No operation on the session yet.
\*   op                  "login", "logout" or "check_role_access"
\*   username, password  the login form's fields
\*   ok                  check_password's value for them
\*   message             what st.error showed, "" if nothing
\*   required_role, access   check_role_access's argument and value
\*   before              the session as the operation found it
NoSubmission ==
  [op |-> "none", username |-> <<>>, password |-> <<>>, ok |-> FALSE, message |-> "",
   required_role |-> <<>>, access |-> FALSE, before |-> EmptySession]

\* Nobody uses the login form.
AuthIdle ==
  /\ authenticator = "frontend/components/auth.py"
  /\ session = EmptySession
  /\ submitted = NoSubmission

\* A response body: JSON or not, and the `errors` array of a JSON object,
\* <<>> when it has none and <<array>> when it has one.
ResponseBody(json, errors) == [json |-> json, errors |-> errors]

\* _handle_response returned without raising.
NotRaised == [pc |-> "done", raised |-> FALSE, status_code |-> 0, message |-> ""]

\* No response is being handled.
ResponseIdle ==
  /\ response = [status_code |-> 200, body |-> ResponseBody(TRUE, <<>>)]
  /\ handled = [NotRaised EXCEPT !.pc = "idle"]

\* get_project_tree is not running.
\*   pc             position
\*   projects       the list get_projects returned; each project is a dict with
\*                  `id` and, unless it is top-level, `parent` (<<>> when absent)
\*   children       per position of the list, the project's 'children': the
\*                  positions of the projects appended to it; <<>> before line 197
\*   root_projects  the positions of the projects appended to root_projects
\*   i              the position the loop of line 201 is at
\*   listings       history: the calls of get_projects
IdleTree ==
  [pc |-> "idle", projects |-> <<>>, children |-> <<>>, root_projects |-> <<>>,
   i |-> 0, listings |-> 0]

\* get_time_entries_for_project is not running.
\*   pc        "idle", "running", "done" or "raised"
\*   stack     the frames of the recursion, the running one last
\*   project_id, include_subprojects   the arguments of the outermost call
\*   result    what the outermost call returned
\*   fetched   history: the project_id of each get_time_entries call, in order
\*   listings  history: the calls of get_projects
IdleWalk ==
  [pc |-> "idle", stack |-> <<>>, project_id |-> 0, include_subprojects |-> FALSE,
   result |-> <<>>, fetched |-> <<>>, listings |-> 0]

\* Nobody asks for the project tree or a project's time entries.
TreeIdle ==
  /\ projects = <<>>
  /\ tree = IdleTree
  /\ walk = IdleWalk

\* process_time_entries was not called.
\*   pc      "idle" or "done"
\*   via     "process_time_entries" for a direct call, "load_data" for the
\*           application's call
\*   raised  the exception that left the call, "" if it returned
\*   rows    the rows of the DataFrame returned
NotProcessed == [pc |-> "idle", via |-> "", raised |-> "", rows |-> <<>>]

\* analyze_project_status was not called.
\*   pc      "idle" or "done"
\*   reference_date   the argument, <<>> for None
\*   ref_date         the date compared with, datetime.now() without the argument
\*   raised  the exception that left the call, "" if it returned
\*   total_issues, open_issues, overdue_issues   the values of the dict returned
NotAnalysed ==
  [pc |-> "idle", reference_date |-> <<>>, ref_date |-> 0, raised |-> "",
   total_issues |-> 0, open_issues |-> 0, overdue_issues |-> 0]

\* Nobody uses the DataProcessor.
DataIdle ==
  /\ time_entries = <<>>
  /\ processed = NotProcessed
  /\ issues = <<>>
  /\ analysis = NotAnalysed

LibIdle == TreeIdle /\ DataIdle

\* ------------------------------------------------- RedmineClient.__init__
Init ==
  /\ now = 0
  /\ clockOK \in BOOLEAN
  /\ active = {1}
  /\ rate_limit_burst \in 1..MaxBurst
  /\ required_gap \in Gaps
  /\ request_times = <<>>
  /\ last_request_time = 0
  /\ thread = [t \in Threads |-> IdleThread]
  /\ granted = <<>>
  /\ lost = FALSE
  /\ cache = EmptyDict
  /\ lock = NoThread
  /\ cthread = [t \in Threads |-> IdleCacheThread]
  /\ lastSet = EmptyDict
  /\ PageIdle
  /\ LibIdle
  /\ FetchIdle
  /\ AuthIdle
  /\ ResponseIdle

\* -------------------------------------- RedmineClient._check_rate_limit
\* A caller (a test, another component) calls _check_rate_limit directly.
CallCheckRateLimit(t) ==
  /\ t \in active
  /\ thread[t].pc = "idle"
  /\ thread' = [thread EXCEPT ![t] = [IdleThread EXCEPT !.pc = "rl_enter", !.caller = "direct"]]
  /\ UNCHANGED <<cacheVars, extVars, now, configVars, request_times, last_request_time, granted, lost>>

\* Lines 314-318, up to the value of the list comprehension.
RLEnter(t) ==
  /\ thread[t].pc = "rl_enter"
  /\ thread' = [thread EXCEPT ![t] =
       [@ EXCEPT !.pc = "rl_store", !.current_time = now, !.cutoff_time = now - Window,
                 !.pruned = Prune(request_times, now - Window)]]
  /\ UNCHANGED <<cacheVars, extVars, now, configVars, request_times, last_request_time, granted, lost>>

\* self._request_times = <the comprehension's value>: a timestamp another thread
\* appended since the comprehension ran is dropped by the store.
StorePruned(t) ==
  /\ request_times' = thread[t].pruned
  /\ lost' = (lost \/ Prune(request_times, thread[t].cutoff_time) # thread[t].pruned)

\* Line 318's store, and lines 320-321.
RLStore(t) ==
  /\ thread[t].pc = "rl_store"
  /\ StorePruned(t)
  /\ thread' = [thread EXCEPT ![t] = [@ EXCEPT !.pc = "rl_loop", !.rl_attempt = 0, !.pruned = <<>>]]
  /\ UNCHANGED <<cacheVars, extVars, now, configVars, last_request_time, granted>>

\* RLRaise with RateLimitExceeded caught by _make_request's except clause and
\* handled as a failed attempt: a backoff sleep, then the next attempt.
RLRaise_Retried(t) ==
  /\ thread[t].pc = "rl_loop"
  /\ ~(thread[t].rl_attempt < max_attempts)
  /\ thread' = [thread EXCEPT ![t] =
       IF @.caller = "request" /\ @.attempt < max_retries - 1
         THEN Sleep([@ EXCEPT !.sleeps = Append(@, retry_delay * (thread[t].attempt + 1))],
                    retry_delay * (@.attempt + 1), "mr_backoff")
         ELSE Finish(@, "RateLimitExceeded")]
  /\ UNCHANGED <<cacheVars, extVars, now, configVars, request_times, last_request_time, granted, lost>>

\* Line 349: the loop is over, RateLimitExceeded goes up to the top-level caller
\* (_make_request catches only requests.exceptions.RequestException).
RLRaise(t) ==
  /\ thread[t].pc = "rl_loop"
  /\ ~(thread[t].rl_attempt < max_attempts)
  /\ thread' = [thread EXCEPT ![t] = Finish(@, "RateLimitExceeded")]
  /\ UNCHANGED <<cacheVars, extVars, now, configVars, request_times, last_request_time, granted, lost>>

\* RLLoop with the burst check `len(self._request_times) > self.rate_limit_burst`.
RLLoop_BurstOffByOne(t) ==
  /\ thread[t].pc = "rl_loop"
  /\ thread[t].rl_attempt < max_attempts
  /\ LET th == [thread[t] EXCEPT !.rl_attempt = @ + 1]
         sleep_time == request_times[1] - thread[t].cutoff_time
     IN thread' = [thread EXCEPT ![t] =
          IF Len(request_times) > rate_limit_burst /\ sleep_time > 0
            THEN Sleep(th, sleep_time, "rl_burst_sleep")
            ELSE [th EXCEPT !.pc = "rl_rate"]]
  /\ UNCHANGED <<cacheVars, extVars, now, configVars, request_times, last_request_time, granted, lost>>

\* RLLoop with the loop condition `attempt <= max_attempts`.
RLLoop_CapOffByOne(t) ==
  /\ thread[t].pc = "rl_loop"
  /\ thread[t].rl_attempt <= max_attempts
  /\ LET th == [thread[t] EXCEPT !.rl_attempt = @ + 1]
         sleep_time == request_times[1] - thread[t].cutoff_time
     IN thread' = [thread EXCEPT ![t] =
          IF Len(request_times) >= rate_limit_burst /\ sleep_time > 0
            THEN Sleep(th, sleep_time, "rl_burst_sleep")
            ELSE [th EXCEPT !.pc = "rl_rate"]]
  /\ UNCHANGED <<cacheVars, extVars, now, configVars, request_times, last_request_time, granted, lost>>

\* RLLoop with a sleep of the whole window, wherever the oldest timestamp lies.
RLLoop_SleepsWholeWindow(t) ==
  /\ thread[t].pc = "rl_loop"
  /\ thread[t].rl_attempt < max_attempts
  /\ LET th == [thread[t] EXCEPT !.rl_attempt = @ + 1]
         sleep_time == Window
     IN thread' = [thread EXCEPT ![t] =
          IF Len(request_times) >= rate_limit_burst /\ sleep_time > 0
            THEN Sleep(th, sleep_time, "rl_burst_sleep")
            ELSE [th EXCEPT !.pc = "rl_rate"]]
  /\ UNCHANGED <<cacheVars, extVars, now, configVars, request_times, last_request_time, granted, lost>>

\* Lines 323-330: one iteration's burst check.
RLLoop(t) ==
  /\ thread[t].pc = "rl_loop"
  /\ thread[t].rl_attempt < max_attempts
  /\ LET th == [thread[t] EXCEPT !.rl_attempt = @ + 1]
         sleep_time == request_times[1] - thread[t].cutoff_time
     IN thread' = [thread EXCEPT ![t] =
          IF Len(request_times) >= rate_limit_burst /\ sleep_time > 0
            THEN Sleep(th, sleep_time, "rl_burst_sleep")
            ELSE [th EXCEPT !.pc = "rl_rate"]]
  /\ UNCHANGED <<cacheVars, extVars, now, configVars, request_times, last_request_time, granted, lost>>

\* Lines 330-333, up to the value of the list comprehension.
RLBurstWake(t) ==
  /\ thread[t].pc = "rl_burst_sleep"
  /\ Awake(t)
  /\ thread' = [thread EXCEPT ![t] =
       [@ EXCEPT !.pc = "rl_restore", !.current_time = now, !.cutoff_time = now - Window,
                 !.pruned = Prune(request_times, now - Window),
                 !.wake_at = 0, !.sleep_len = 0]]
  /\ UNCHANGED <<cacheVars, extVars, now, configVars, request_times, last_request_time, granted, lost>>

\* Line 333's store, and `continue`.
RLRestore(t) ==
  /\ thread[t].pc = "rl_restore"
  /\ StorePruned(t)
  /\ thread' = [thread EXCEPT ![t] = [@ EXCEPT !.pc = "rl_loop", !.pruned = <<>>]]
  /\ UNCHANGED <<cacheVars, extVars, now, configVars, last_request_time, granted>>

\* Lines 337-341: the spacing check, made only when the window is not empty.
RLRate(t) ==
  /\ thread[t].pc = "rl_rate"
  /\ LET time_since_last == thread[t].current_time - last_request_time
     IN thread' = [thread EXCEPT ![t] =
          IF request_times # <<>> /\ time_since_last < required_gap
            THEN Sleep(@, required_gap - time_since_last, "rl_rate_sleep")
            ELSE [@ EXCEPT !.pc = "rl_grant"]]
  /\ UNCHANGED <<cacheVars, extVars, now, configVars, request_times, last_request_time, granted, lost>>

\* Lines 341-342.
RLRateWake(t) ==
  /\ thread[t].pc = "rl_rate_sleep"
  /\ Awake(t)
  /\ thread' = [thread EXCEPT ![t] = [@ EXCEPT !.pc = "rl_grant", !.current_time = now, !.wake_at = 0, !.sleep_len = 0]]
  /\ UNCHANGED <<cacheVars, extVars, now, configVars, request_times, last_request_time, granted, lost>>

\* Lines 345-347: the request is granted and its timestamp recorded.
RLGrant(t) ==
  /\ thread[t].pc = "rl_grant"
  /\ last_request_time' = thread[t].current_time
  /\ request_times' = Append(request_times, thread[t].current_time)
  /\ granted' = Append(granted, thread[t].current_time)
  /\ thread' = [thread EXCEPT ![t] =
       IF @.caller = "direct"
         THEN Finish(@, "granted")
         ELSE [@ EXCEPT !.pc = "mr_get", !.req_grants = @ + 1, !.current_time = 0,
                        !.cutoff_time = 0, !.rl_attempt = 0, !.wake_at = 0, !.sleep_len = 0]]
  /\ UNCHANGED <<cacheVars, extVars, now, configVars, lost>>

\* ------------------------------------------ RedmineClient._make_request
\* A fetch operation calls _make_request: lines 61-67, the first attempt's gate.
MakeRequest(t) ==
  /\ t \in active
  /\ thread[t].pc = "idle"
  /\ thread' = [thread EXCEPT ![t] =
       [IdleThread EXCEPT !.pc = "rl_enter", !.caller = "request", !.attempt = 0]]
  /\ UNCHANGED <<cacheVars, extVars, now, configVars, request_times, last_request_time, granted, lost>>

\* AfterGet with the backoff `time.sleep(retry_delay)`, the attempt number left out.
AfterGet_FlatBackoff(th, o, header) ==
  LET got == [th EXCEPT !.outcomes = Append(@, o)] IN
  CASE o = "ok" -> Finish(got, "json")
    [] o = "429" ->
         Sleep([got EXCEPT !.sleeps = Append(@, RetryAfter(header)), !.header = header],
               RetryAfter(header), "mr_sleep429")
    [] o = "http_error" -> Finish(got, "RedmineApiError")
    [] o = "transport" ->
         IF th.attempt = max_retries - 1
           THEN Finish(got, "RequestException")
           ELSE Sleep([got EXCEPT !.sleeps = Append(@, retry_delay)],
                      retry_delay, "mr_backoff")

\* AfterGet with _handle_response's error raised inside the try block as a
\* requests exception: an HTTP error status is retried like a transport failure.
AfterGet_RetriesHttpError(th, o, header) ==
  LET got == [th EXCEPT !.outcomes = Append(@, o)] IN
  CASE o = "ok" -> Finish(got, "json")
    [] o = "429" ->
         Sleep([got EXCEPT !.sleeps = Append(@, RetryAfter(header)), !.header = header],
               RetryAfter(header), "mr_sleep429")
    [] o \in {"http_error", "transport"} ->
         IF th.attempt = max_retries - 1
           THEN Finish(got, IF o = "transport" THEN "RequestException" ELSE "RedmineApiError")
           ELSE Sleep([got EXCEPT !.sleeps = Append(@, retry_delay * (th.attempt + 1))],
                      retry_delay * (th.attempt + 1), "mr_backoff")

\* Lines 68-88: the GET and what its outcome leads to.
\*   ok          _handle_response passes, response.json() is returned
\*   429         sleep Retry-After, `continue`
\*   http_error  _handle_response raises RedmineApiError, which is not caught
\*   transport   requests.exceptions.RequestException: re-raised on the last
\*               attempt, else sleep retry_delay * (attempt + 1)
AfterGet(th, o, header) ==
  LET got == [th EXCEPT !.outcomes = Append(@, o)] IN
  CASE o = "ok" -> Finish(got, "json")
    [] o = "429" ->
         Sleep([got EXCEPT !.sleeps = Append(@, RetryAfter(header)), !.header = header],
               RetryAfter(header), "mr_sleep429")
    [] o = "http_error" -> Finish(got, "RedmineApiError")
    [] o = "transport" ->
         IF th.attempt = max_retries - 1
           THEN Finish(got, "RequestException")
           ELSE Sleep([got EXCEPT !.sleeps = Append(@, retry_delay * (th.attempt + 1))],
                      retry_delay * (th.attempt + 1), "mr_backoff")

\* Line 68: the GET is answered; the Retry-After header is read on a 429 only.
MRGet(t) ==
  /\ thread[t].pc = "mr_get"
  /\ \E o \in Outcomes :
       \E header \in (IF o = "429" THEN RetryAfterHeaders ELSE {<<>>}) :
         thread' = [thread EXCEPT ![t] = AfterGet(@, o, header)]
  /\ UNCHANGED <<cacheVars, extVars, now, configVars, request_times, last_request_time, granted, lost>>

\* NextAttempt with self._check_rate_limit() called once, ahead of the loop.
NextAttempt_Ungated(th) ==
  IF th.attempt + 1 < max_retries
    THEN [th EXCEPT !.pc = "mr_get", !.attempt = @ + 1, !.wake_at = 0, !.sleep_len = 0,
                     !.header = <<>>]
    ELSE Finish(th, "None")

\* The for loop's next iteration (line 65): the next attempt's gate, or, with
\* range(max_retries) used up, the end of the function body (no return statement).
NextAttempt(th) ==
  IF th.attempt + 1 < max_retries
    THEN [th EXCEPT !.pc = "rl_enter", !.attempt = @ + 1, !.wake_at = 0, !.sleep_len = 0,
                     !.header = <<>>]
    ELSE Finish(th, "None")

\* Lines 78-79: the sleep after a 429 is over, `continue`.
MRWake429(t) ==
  /\ thread[t].pc = "mr_sleep429"
  /\ Awake(t)
  /\ thread' = [thread EXCEPT ![t] = NextAttempt(@)]
  /\ UNCHANGED <<cacheVars, extVars, now, configVars, request_times, last_request_time, granted, lost>>

\* Line 88: the backoff sleep is over.
MRWakeBackoff(t) ==
  /\ thread[t].pc = "mr_backoff"
  /\ Awake(t)
  /\ thread' = [thread EXCEPT ![t] = NextAttempt(@)]
  /\ UNCHANGED <<cacheVars, extVars, now, configVars, request_times, last_request_time, granted, lost>>

\* The top-level caller has the result; the frame and its history are gone.
Return(t) ==
  /\ t \in active
  /\ thread[t].pc = "done"
  /\ thread' = [thread EXCEPT ![t] = IdleThread]
  /\ UNCHANGED <<cacheVars, extVars, now, configVars, request_times, last_request_time, granted, lost>>

\* ------------------------------------------------------------------ clock
\* Time passes while every thread is outside the client or asleep: the
\* statements between two clock reads take no time of their own.
Tick ==
  /\ now < MaxTime
  /\ \A t \in active : thread[t].pc \in Sleeping \cup {"idle"}
  /\ now' = now + 1
  /\ granted' = Prune(granted, now + 1 - Horizon)
  /\ UNCHANGED <<cacheVars, extVars, configVars, request_times, last_request_time, thread, lost>>

\* ------------------------------------------------------- specifications
LimiterStep(t) ==
  \/ RLEnter(t)
  \/ RLStore(t)
  \/ RLLoop(t)
  \/ RLRaise(t)
  \/ RLBurstWake(t)
  \/ RLRestore(t)
  \/ RLRate(t)
  \/ RLRateWake(t)
  \/ RLGrant(t)

RequestStep(t) ==
  \/ MakeRequest(t)
  \/ MRGet(t)
  \/ MRWake429(t)
  \/ MRWakeBackoff(t)

\* The threads of `active` use the client.
Next ==
  \/ Tick
  \/ \E t \in Threads :
       \/ CallCheckRateLimit(t)
       \/ LimiterStep(t)
       \/ RequestStep(t)
       \/ Return(t)

Spec == Init /\ [][Next]_vars

\* One thread makes logical requests through _make_request, every call of
\* _check_rate_limit being one of a request; the spacing is one tick.
InitRequest == Init /\ required_gap = 1

NextRequest ==
  \/ Tick
  \/ \E t \in Threads :
       \/ LimiterStep(t)
       \/ RequestStep(t)
       \/ Return(t)

SpecRequest == InitRequest /\ [][NextRequest]_vars

\* One thread calls _check_rate_limit directly, as the limiter's tests do.
NextLimiter ==
  \/ Tick
  \/ \E t \in Threads :
       \/ CallCheckRateLimit(t)
       \/ LimiterStep(t)
       \/ Return(t)

SpecLimiter == Init /\ [][NextLimiter]_vars

\* A thread that has its result leaves for good.
Retire(t) ==
  /\ t \in active
  /\ thread[t].pc = "done"
  /\ thread' = [thread EXCEPT ![t] = IdleThread]
  /\ active' = active \ {t}
  /\ UNCHANGED <<cacheVars, extVars, now, clockOK, rate_limit_burst, required_gap, request_times,
                 last_request_time, granted, lost>>

\* Two threads use one client.
InitConc ==
  /\ now = 0
  /\ clockOK \in BOOLEAN
  /\ active = Threads
  /\ rate_limit_burst \in 1..MaxBurst
  /\ required_gap \in Gaps
  /\ request_times = <<>>
  /\ last_request_time = 0
  /\ thread = [t \in Threads |-> IdleThread]
  /\ granted = <<>>
  /\ lost = FALSE
  /\ cache = EmptyDict
  /\ lock = NoThread
  /\ cthread = [t \in Threads |-> IdleCacheThread]
  /\ lastSet = EmptyDict
  /\ PageIdle
  /\ LibIdle
  /\ FetchIdle
  /\ AuthIdle
  /\ ResponseIdle

\* Each thread calls the limiter, concurrently with the other, and leaves.
NextConc ==
  \/ Tick
  \/ \E t \in Threads :
       \/ CallCheckRateLimit(t)
       \/ LimiterStep(t)
       \/ Retire(t)

SpecConc == InitConc /\ [][NextConc]_vars

\* Two threads use one CacheManager.
InitCache ==
  /\ now = 0
  /\ clockOK = TRUE
  /\ active = {}
  /\ rate_limit_burst = 1
  /\ required_gap = 1
  /\ request_times = <<>>
  /\ last_request_time = 0
  /\ thread = [t \in Threads |-> IdleThread]
  /\ granted = <<>>
  /\ lost = FALSE
  /\ cache = EmptyDict
  /\ lock = NoThread
  /\ cthread = [t \in Threads |-> IdleCacheThread]
  /\ lastSet = EmptyDict
  /\ PageIdle
  /\ LibIdle
  /\ FetchIdle
  /\ AuthIdle
  /\ ResponseIdle

NextCache ==
  \/ CacheTick
  \/ \E t \in Threads :
       \/ Call(t)
       \/ EnterGet(t)
       \/ EnterSet(t)
       \/ EnterInvalidate(t)
       \/ EnterClear(t)
       \/ GetLookup(t)
       \/ GetCheck(t)
       \/ SetStore(t)
       \/ InvalidatePop(t)
       \/ ClearAll(t)
       \/ Release(t)

SpecCache == InitCache /\ [][NextCache]_vars

\* ------------------------------- RedmineClient._get_paginated_response
\* The upstream API serves a collection page by page: sizes[k] items in page k,
\* the items numbered in the order of the collection. `server` holds the pages
\* served so far, the total_count the first of them stated, if it stated one,
\* and the log of the requests answered: which page each of them got.
PageItems(sizes, k) ==
  IF k \in 1..Len(sizes)
    THEN [i \in 1..sizes[k] |-> SumTo(sizes, k - 1) + i]
    ELSE <<>>

\* The page the server returns for the query parameters offset and limit.
PageAt(offset) == offset \div limit + 1

\* int(response.get('total_count', 0))
TotalCount(response_total) ==
  IF response_total = <<>> THEN 0 ELSE response_total[1]

\* The params the fetch operations hand over: none (get_projects, get_users),
\* or the filters of get_project_issues.
FilterParams == {NoParams, [project_id |-> 1, status_id |-> "*"]}

\* {'offset': offset, 'limit': limit, **(params or {})}
PageParams(offset, params) == Merge([offset |-> offset, limit |-> limit], params)

\* A fetch operation calls _get_paginated_response: lines 119-126.
GetPaginated(t) ==
  /\ t \in active
  /\ pg.pc = "idle"
  /\ thread[t].pc = "idle"
  /\ \E params \in FilterParams : pg' = [IdlePage EXCEPT !.pc = "await", !.params = params]
  /\ UNCHANGED <<libVars, clientVars, cacheVars, server, fetchVars, authVars, respVars>>

\* Lines 128-134: the page's query parameters and its logical request.
PageMakeRequest(t) ==
  /\ pg.pc = "await"
  /\ pg.requests < MaxPages
  /\ t \in active
  /\ thread[t].pc = "idle"
  /\ thread' = [thread EXCEPT ![t] =
       [IdleThread EXCEPT !.pc = "rl_enter", !.caller = "request", !.attempt = 0]]
  /\ pg' = [pg EXCEPT !.sent = Append(@, PageParams(pg.offset, pg.params))]
  /\ UNCHANGED <<libVars, cacheVars, server, fetchVars, authVars, respVars, now, configVars,
                 request_times, last_request_time, granted, lost>>

\* What _check_rate_limit leaves to _make_request: it returns, or it raises
\* RateLimitExceeded (line 349).
CheckRateLimit(t) ==
  /\ thread[t].pc = "rl_enter"
  /\ thread[t].caller = "request"
  /\ \E ok \in BOOLEAN :
       thread' = [thread EXCEPT ![t] =
         IF ok THEN [@ EXCEPT !.pc = "mr_get", !.req_grants = @ + 1]
               ELSE Finish(@, "RateLimitExceeded")]
  /\ UNCHANGED <<cacheVars, extVars, now, configVars, request_times, last_request_time,
                 granted, lost>>

\* NextPage with the accumulated items handed to the caller when a request fails.
NextPage_PartialOnError(p, how, srv) ==
  LET got == [p EXCEPT !.requests = @ + 1] IN
  IF how = "json"
    THEN LET items == PageItems(srv.sizes, PageAt(p.offset))
             total == IF p.total_count = <<>>
                        THEN <<TotalCount(srv.stated)>> ELSE p.total_count
             all == p.all_items \o items
         IN IF Len(all) >= total[1]
              THEN [got EXCEPT !.pc = "done", !.total_count = total, !.all_items = all,
                               !.result = "returned", !.returned = all]
              ELSE [got EXCEPT !.total_count = total, !.all_items = all,
                               !.offset = @ + limit]
    ELSE [got EXCEPT !.pc = "done", !.result = "returned", !.returned = p.all_items]

\* NextPage with the offset left where it was.
NextPage_SameOffset(p, how, srv) ==
  LET got == [p EXCEPT !.requests = @ + 1] IN
  IF how = "json"
    THEN LET items == PageItems(srv.sizes, PageAt(p.offset))
             total == IF p.total_count = <<>>
                        THEN <<TotalCount(srv.stated)>> ELSE p.total_count
             all == p.all_items \o items
         IN IF Len(all) >= total[1]
              THEN [got EXCEPT !.pc = "done", !.total_count = total, !.all_items = all,
                               !.result = "returned", !.returned = all]
              ELSE [got EXCEPT !.total_count = total, !.all_items = all]
    ELSE [got EXCEPT !.pc = "done",
                     !.result = IF how = "None" THEN "AttributeError" ELSE how]

\* NextPage with total_count read from every page, not only while it is None.
NextPage_LatestTotal(p, how, srv) ==
  LET got == [p EXCEPT !.requests = @ + 1] IN
  IF how = "json"
    THEN LET items == PageItems(srv.sizes, PageAt(p.offset))
             total == <<TotalCount(srv.stated)>>
             all == p.all_items \o items
         IN IF Len(all) >= total[1]
              THEN [got EXCEPT !.pc = "done", !.total_count = total, !.all_items = all,
                               !.result = "returned", !.returned = all]
              ELSE [got EXCEPT !.total_count = total, !.all_items = all,
                               !.offset = @ + limit]
    ELSE [got EXCEPT !.pc = "done",
                     !.result = IF how = "None" THEN "AttributeError" ELSE how]

\* NextPage with the offset advanced by the number of items the page held.
NextPage_OffsetByItems(p, how, srv) ==
  LET got == [p EXCEPT !.requests = @ + 1] IN
  IF how = "json"
    THEN LET items == PageItems(srv.sizes, PageAt(p.offset))
             total == IF p.total_count = <<>>
                        THEN <<TotalCount(srv.stated)>> ELSE p.total_count
             all == p.all_items \o items
         IN IF Len(all) >= total[1]
              THEN [got EXCEPT !.pc = "done", !.total_count = total, !.all_items = all,
                               !.result = "returned", !.returned = all]
              ELSE [got EXCEPT !.total_count = total, !.all_items = all,
                               !.offset = @ + Len(items)]
    ELSE [got EXCEPT !.pc = "done",
                     !.result = IF how = "None" THEN "AttributeError" ELSE how]

\* Lines 134-151, from the return of _make_request on.
\*   json   the page's body: total_count is read from the first one, the items
\*          are appended, and the loop ends once len(all_items) >= total_count
\*   None   _make_request fell off its loop: response.get raises AttributeError
\*   else   the exception of _make_request, which nothing here catches
NextPage(p, how, srv) ==
  LET got == [p EXCEPT !.requests = @ + 1] IN
  IF how = "json"
    THEN LET items == PageItems(srv.sizes, PageAt(p.offset))
             total == IF p.total_count = <<>>
                        THEN <<TotalCount(srv.stated)>> ELSE p.total_count
             all == p.all_items \o items
         IN IF Len(all) >= total[1]
              THEN [got EXCEPT !.pc = "done", !.total_count = total, !.all_items = all,
                               !.result = "returned", !.returned = all]
              ELSE [got EXCEPT !.total_count = total, !.all_items = all,
                               !.offset = @ + limit]
    ELSE [got EXCEPT !.pc = "done",
                     !.result = IF how = "None" THEN "AttributeError" ELSE how]

\* The pages a server may serve, and the total_count it may state.
PageLens == 0..MaxPageLen
TotalCounts == {<<>>} \cup {<<n>> : n \in 0..(MaxPages * MaxPageLen)}

\* The total_count a page after the first may state: the first page's, or
\* another one (the collection shrank to nothing, or grew by one).
LaterTotals(first) ==
  {first, <<0>>} \cup (IF first = <<>> THEN {} ELSE {<<first[1] + 1>>})

\* The server after it answered the request for `offset`: a page it served
\* before is served again as it was; a new page has any length and states a
\* total_count. `total_count` is what the first page stated, `stated` what
\* the latest response did.
Served(offset) ==
  IF PageAt(offset) <= Len(server.sizes)
    THEN {[server EXCEPT !.log = Append(@, PageAt(offset))]}
    ELSE {[sizes |-> Append(server.sizes, n),
           total_count |-> IF server.sizes = <<>> THEN total ELSE server.total_count,
           stated |-> total,
           log |-> Append(server.log, Len(server.sizes) + 1)] :
            n \in PageLens,
            total \in (IF server.sizes = <<>> THEN TotalCounts
                                              ELSE LaterTotals(server.total_count))}

\* _make_request comes back to line 134, with a page or with an exception.
PageResponse(t) ==
  /\ pg.pc = "await"
  /\ thread[t].pc = "done"
  /\ \E srv \in (IF thread[t].result = "json" THEN Served(pg.offset) ELSE {server}) :
       /\ server' = srv
       /\ pg' = NextPage(pg, thread[t].result, srv)
  /\ thread' = [thread EXCEPT ![t] = IdleThread]
  /\ UNCHANGED <<libVars, cacheVars, now, configVars, request_times, last_request_time, granted, lost,
                 fetchVars, authVars, respVars>>

\* The caller has the list, or the exception; what the server served for this
\* fetch is history.
PageReturn ==
  /\ pg.pc = "done"
  /\ pg' = IdlePage
  /\ server' = [sizes |-> <<>>, total_count |-> <<>>, stated |-> <<>>, log |-> <<>>]
  /\ UNCHANGED <<libVars, clientVars, cacheVars, fetchVars, authVars, respVars>>

\* One thread fetches a collection of a server; sleeps are as long as they are.
InitPage ==
  /\ now = 0
  /\ clockOK = FALSE
  /\ active = {1}
  /\ rate_limit_burst = 1
  /\ required_gap = 1
  /\ request_times = <<>>
  /\ last_request_time = 0
  /\ thread = [t \in Threads |-> IdleThread]
  /\ granted = <<>>
  /\ lost = FALSE
  /\ cache = EmptyDict
  /\ lock = NoThread
  /\ cthread = [t \in Threads |-> IdleCacheThread]
  /\ lastSet = EmptyDict
  /\ PageIdle
  /\ LibIdle
  /\ FetchIdle
  /\ AuthIdle
  /\ ResponseIdle

NextPageStep ==
  \/ PageReturn
  \/ \E t \in Threads :
       \/ GetPaginated(t)
       \/ PageMakeRequest(t)
       \/ CheckRateLimit(t)
       \/ MRGet(t)
       \/ MRWake429(t)
       \/ MRWakeBackoff(t)
       \/ PageResponse(t)

SpecPage == InitPage /\ [][NextPageStep]_vars

\* ----------------------------------------- RedmineClient._handle_response
\* The statuses a server answers with, and the messages of its `errors` array.
Statuses == {200, 201, 304, 400, 401, 403, 404, 422, 500, 503}
ErrorTexts == {"Name cannot be blank", "Project is invalid"}
ErrorArrays == UNION {[1..n -> ErrorTexts] : n \in 0..MaxErrors}
Bodies ==
  {ResponseBody(FALSE, <<>>), ResponseBody(TRUE, <<>>)} \cup
  {ResponseBody(TRUE, <<errors>>) : errors \in ErrorArrays}

\* response.raise_for_status() raises HTTPError for the statuses 400 to 599.
RaisesForStatus(status) == status >= 400 /\ status < 600

\* str(e) of that HTTPError: "<status> Client Error: ..." or "<status> Server Error: ...".
HttpErrorText(status) ==
  ToString(status) \o (IF status < 500 THEN " Client Error" ELSE " Server Error")

\* ', '.join(errors)
RECURSIVE Join(_)
Join(errors) ==
  IF errors = <<>> THEN ""
  ELSE IF Len(errors) = 1 THEN errors[1]
  ELSE errors[1] \o ", " \o Join(Tail(errors))

\* raise RedmineApiError(status_code, message)
RedmineApiError(status_code, message) ==
  [pc |-> "done", raised |-> TRUE, status_code |-> status_code, message |-> message]

\* HandleResponse with every unrecognised status reported as a 500.
HandleResponse_Generic500(resp) ==
  IF ~RaisesForStatus(resp.status_code) THEN NotRaised
  ELSE LET error_msg == IF resp.body.json /\ resp.body.errors # <<>>
                          THEN Join(resp.body.errors[1])
                          ELSE HttpErrorText(resp.status_code)
       IN CASE resp.status_code = 401 ->
                 RedmineApiError(401, "Authentication failed. Check your API key.")
            [] resp.status_code = 403 ->
                 RedmineApiError(403, "Insufficient permissions for this request.")
            [] resp.status_code = 404 -> RedmineApiError(404, "Resource not found.")
            [] resp.status_code = 422 ->
                 RedmineApiError(422, "Validation failed: " \o error_msg)
            [] OTHER -> RedmineApiError(500, error_msg)

\* Lines 92-112: nothing is raised unless raise_for_status raises; error_msg
\* is str(e), or the joined `errors` of a body that parses as a JSON object
\* with that key.
HandleResponse(resp) ==
  IF ~RaisesForStatus(resp.status_code) THEN NotRaised
  ELSE LET error_msg == IF resp.body.json /\ resp.body.errors # <<>>
                          THEN Join(resp.body.errors[1])
                          ELSE HttpErrorText(resp.status_code)
       IN CASE resp.status_code = 401 ->
                 RedmineApiError(401, "Authentication failed. Check your API key.")
            [] resp.status_code = 403 ->
                 RedmineApiError(403, "Insufficient permissions for this request.")
            [] resp.status_code = 404 -> RedmineApiError(404, "Resource not found.")
            [] resp.status_code = 422 ->
                 RedmineApiError(422, "Validation failed: " \o error_msg)
            [] OTHER -> RedmineApiError(resp.status_code, error_msg)

\* Line 81: _make_request hands a response that is not a 429 to _handle_response.
CallHandleResponse ==
  /\ handled.pc = "idle"
  /\ handled' = HandleResponse(response)
  /\ UNCHANGED <<libVars, clientVars, cacheVars, pageVars, fetchVars, authVars, response>>

\* A response of the server arrives.
InitResponse ==
  /\ now = 0
  /\ clockOK = TRUE
  /\ active = {}
  /\ rate_limit_burst = 1
  /\ required_gap = 1
  /\ request_times = <<>>
  /\ last_request_time = 0
  /\ thread = [t \in Threads |-> IdleThread]
  /\ granted = <<>>
  /\ lost = FALSE
  /\ cache = EmptyDict
  /\ lock = NoThread
  /\ cthread = [t \in Threads |-> IdleCacheThread]
  /\ lastSet = EmptyDict
  /\ PageIdle
  /\ LibIdle
  /\ FetchIdle
  /\ AuthIdle
  /\ response \in [status_code : Statuses, body : Bodies]
  /\ handled = [NotRaised EXCEPT !.pc = "idle"]

NextResponse == CallHandleResponse

SpecResponse == InitResponse /\ [][NextResponse]_vars

\* ------------------------------------- RedmineClient's cached fetches
\* The fetch operations that consult the cache, and those that page through a
\* collection.
CachedGets == {"get_activities", "get_issue_statuses"}
ListGets == {"get_projects", "get_users"}

\* How _make_request, and _get_paginated_response on top of it, can fail; a
\* _make_request that returns None makes the following .get raise AttributeError.
FetchErrors == {"RedmineApiError", "RequestException", "RateLimitExceeded", "AttributeError"}

\* The constructor's cache_ttl: None, or an override of the activities' ttl.
TtlArgs == {NoTtlArg} \cup {[k \in {"activities"} |-> n] : n \in Ttls}

\* The clock of the fetch operations' caller: a tick, an hour or a day passes.
HourTicks == 3600 * TicksPerSecond
DayTicks == 24 * HourTicks
FetchTimes == {a + b : a \in 0..MaxFetchTicks, b \in {0, HourTicks, DayTicks}}

\* CacheManager.get with no other thread about: the value returned, and the
\* dict it leaves (an expired entry is deleted).
CacheGet(d, key, at) ==
  IF key \in DOMAIN d /\ ~Expired(d[key], at) THEN d[key].data ELSE "None"
CacheAfterGet(d, key, at) ==
  IF key \in DOMAIN d /\ Expired(d[key], at) THEN DictPop(d, key) ELSE d

\* A caller calls a fetch operation, or invalidate_cache.
EnterFetch(op, key, arg) ==
  /\ fetch.pc = "idle"
  /\ fetch' = [IdleFetch EXCEPT
       !.pc = CASE op \in CachedGets -> "lookup"
                [] op \in ListGets -> "list_request"
                [] OTHER -> "invalidate",
       !.op = op, !.key = key, !.arg = arg, !.before = cache, !.was_set = lastSet,
       !.was_listed = last_list]
  /\ UNCHANGED <<libVars, clientVars, cacheVars, pageVars, authVars, respVars, cache_enabled,
                 cache_ttl_arg, cache_ttl, last_list>>

GetActivities == EnterFetch("get_activities", "activities", <<>>)
GetIssueStatuses == EnterFetch("get_issue_statuses", "issue_statuses", <<>>)
GetProjects == EnterFetch("get_projects", "projects", <<>>)
GetUsers == EnterFetch("get_users", "users", <<>>)
CallInvalidateCache ==
  \E arg \in {<<>>} \cup {<<k>> : k \in Keys \cup {"projects"}} :
    EnterFetch("invalidate_cache", "none", arg)

\* Lines 250-253 (272-275): with the cache on, a value the cache returns is
\* returned to the caller.
CacheLookup ==
  /\ fetch.pc = "lookup"
  /\ LET seen == [fetch EXCEPT !.at = now,
                    !.found = IF fetch.key \in DOMAIN cache THEN <<cache[fetch.key]>> ELSE <<>>]
         cached_data == CacheGet(cache, fetch.key, now)
     IN IF cache_enabled
          THEN /\ cache' = CacheAfterGet(cache, fetch.key, now)
               /\ fetch' = IF cached_data # "None"
                             THEN [seen EXCEPT !.pc = "done", !.cached_data = cached_data,
                                               !.ret = cached_data, !.result = "returned"]
                             ELSE [seen EXCEPT !.pc = "request"]
          ELSE /\ cache' = cache
               /\ fetch' = [seen EXCEPT !.pc = "request"]
  /\ UNCHANGED <<libVars, clientVars, lock, cthread, lastSet, pageVars, authVars, respVars,
                 cache_enabled, cache_ttl_arg, cache_ttl, last_list>>

\* FetchRequest with the store in a `finally`: a request that raises leaves an
\* entry for the key behind.
FetchRequest_CachesFailure ==
  /\ fetch.pc = "request"
  /\ \/ /\ \E v \in Values :
             fetch' = [fetch EXCEPT !.pc = "store", !.ret = v, !.requested = TRUE]
        /\ UNCHANGED cacheVars
     \/ /\ \E e \in FetchErrors :
             fetch' = [fetch EXCEPT !.pc = "done", !.result = e, !.requested = TRUE]
        /\ cache' = IF cache_enabled
                      THEN DictSet(cache, fetch.key, CacheEntry("v1", now, cache_ttl[fetch.key]))
                      ELSE cache
        /\ UNCHANGED <<lock, cthread, lastSet>>
  /\ UNCHANGED <<libVars, clientVars, pageVars, authVars, respVars, cache_enabled,
                 cache_ttl_arg, cache_ttl, last_list>>

\* Lines 255-257 (277-279): the request, which returns the body's list or raises.
FetchRequest ==
  /\ fetch.pc = "request"
  /\ \/ \E v \in Values :
          fetch' = [fetch EXCEPT !.pc = "store", !.ret = v, !.requested = TRUE]
     \/ \E e \in FetchErrors :
          fetch' = [fetch EXCEPT !.pc = "done", !.result = e, !.requested = TRUE]
  /\ UNCHANGED <<libVars, clientVars, cacheVars, pageVars, authVars, respVars, cache_enabled,
                 cache_ttl_arg, cache_ttl, last_list>>

\* CacheStore with the result stored whether or not the cache is enabled.
CacheStore_Always ==
  /\ fetch.pc = "store"
  /\ LET e == CacheEntry(fetch.ret, now, cache_ttl[fetch.key]) IN
       /\ cache' = DictSet(cache, fetch.key, e)
       /\ lastSet' = DictSet(lastSet, fetch.key, e)
  /\ fetch' = [fetch EXCEPT !.pc = "done", !.result = "returned"]
  /\ UNCHANGED <<libVars, clientVars, lock, cthread, pageVars, authVars, respVars, cache_enabled,
                 cache_ttl_arg, cache_ttl, last_list>>

\* CacheStore with self._default_cache_ttl in place of the key's ttl.
CacheStore_DefaultTtl ==
  /\ fetch.pc = "store"
  /\ LET e == CacheEntry(fetch.ret, now, 3600) IN
       IF cache_enabled
         THEN /\ cache' = DictSet(cache, fetch.key, e)
              /\ lastSet' = DictSet(lastSet, fetch.key, e)
         ELSE UNCHANGED <<cache, lastSet>>
  /\ fetch' = [fetch EXCEPT !.pc = "done", !.result = "returned"]
  /\ UNCHANGED <<libVars, clientVars, lock, cthread, pageVars, authVars, respVars, cache_enabled,
                 cache_ttl_arg, cache_ttl, last_list>>

\* Lines 259-266 (281-288): with the cache on, the list is stored under the
\* key's ttl; it is returned.
CacheStore ==
  /\ fetch.pc = "store"
  /\ LET e == CacheEntry(fetch.ret, now, cache_ttl[fetch.key]) IN
       IF cache_enabled
         THEN /\ cache' = DictSet(cache, fetch.key, e)
              /\ lastSet' = DictSet(lastSet, fetch.key, e)
         ELSE UNCHANGED <<cache, lastSet>>
  /\ fetch' = [fetch EXCEPT !.pc = "done", !.result = "returned"]
  /\ UNCHANGED <<libVars, clientVars, lock, cthread, pageVars, authVars, respVars, cache_enabled,
                 cache_ttl_arg, cache_ttl, last_list>>

\* InvalidateCache with every entry cleared whatever the key.
InvalidateCache_ClearsAll ==
  /\ fetch.pc = "invalidate"
  /\ IF ~cache_enabled
       THEN UNCHANGED <<cache, lastSet>>
       ELSE cache' = EmptyDict /\ lastSet' = EmptyDict
  /\ fetch' = [fetch EXCEPT !.pc = "done", !.result = "returned"]
  /\ UNCHANGED <<libVars, clientVars, lock, cthread, pageVars, authVars, respVars, cache_enabled,
                 cache_ttl_arg, cache_ttl, last_list>>

\* Lines 297-303: nothing with the cache off; CacheManager.clear() for None,
\* CacheManager.invalidate(key) for a key.
InvalidateCache ==
  /\ fetch.pc = "invalidate"
  /\ IF ~cache_enabled
       THEN UNCHANGED <<cache, lastSet>>
       ELSE IF fetch.arg = <<>>
         THEN cache' = EmptyDict /\ lastSet' = EmptyDict
         ELSE /\ cache' = DictPop(cache, fetch.arg[1])
              /\ lastSet' = DictPop(lastSet, fetch.arg[1])
  /\ fetch' = [fetch EXCEPT !.pc = "done", !.result = "returned"]
  /\ UNCHANGED <<libVars, clientVars, lock, cthread, pageVars, authVars, respVars, cache_enabled,
                 cache_ttl_arg, cache_ttl, last_list>>

\* Lines 186-188 and 242-244: get_projects and get_users return what
\* _get_paginated_response returns, or raise what it raises.
ListRequest ==
  /\ fetch.pc = "list_request"
  /\ \/ \E v \in Values :
          /\ fetch' = [fetch EXCEPT !.pc = "done", !.ret = v, !.result = "returned",
                                    !.requested = TRUE, !.at = now]
          /\ last_list' = <<[op |-> fetch.op, ret |-> v, at |-> now]>>
     \/ \E e \in FetchErrors :
          /\ fetch' = [fetch EXCEPT !.pc = "done", !.result = e, !.requested = TRUE,
                                    !.at = now]
          /\ last_list' = last_list
  /\ UNCHANGED <<libVars, clientVars, cacheVars, pageVars, authVars, respVars, cache_enabled,
                 cache_ttl_arg, cache_ttl>>

\* The caller has the result.
FetchReturn ==
  /\ fetch.pc = "done"
  /\ fetch' = IdleFetch
  /\ UNCHANGED <<libVars, clientVars, cacheVars, pageVars, authVars, respVars, cache_enabled,
                 cache_ttl_arg, cache_ttl, last_list>>

\* Time passes, in or between the operations.
FetchTick ==
  /\ fetch.pc # "done"
  /\ \E d \in {1, HourTicks, DayTicks} :
       /\ now + d \in FetchTimes
       /\ now' = now + d
  /\ UNCHANGED <<configVars, request_times, last_request_time, thread, granted, lost, cacheVars,
                 extVars>>

\* A client is constructed, with its cache on or off and a cache_ttl argument.
InitFetch ==
  /\ now = 0
  /\ clockOK = TRUE
  /\ active = {}
  /\ rate_limit_burst = 1
  /\ required_gap = 1
  /\ request_times = <<>>
  /\ last_request_time = 0
  /\ thread = [t \in Threads |-> IdleThread]
  /\ granted = <<>>
  /\ lost = FALSE
  /\ cache = EmptyDict
  /\ lock = NoThread
  /\ cthread = [t \in Threads |-> IdleCacheThread]
  /\ lastSet = EmptyDict
  /\ PageIdle
  /\ LibIdle
  /\ cache_enabled \in BOOLEAN
  /\ cache_ttl_arg \in TtlArgs
  /\ cache_ttl = Merge(DefaultCacheTtl, cache_ttl_arg)
  /\ last_list = <<>>
  /\ fetch = IdleFetch
  /\ AuthIdle
  /\ ResponseIdle

\* The reference data is fetched, and the cache invalidated.
NextFetch ==
  \/ GetActivities
  \/ GetIssueStatuses
  \/ CallInvalidateCache
  \/ CacheLookup
  \/ FetchRequest
  \/ CacheStore
  \/ InvalidateCache
  \/ FetchReturn
  \/ FetchTick

SpecFetch == InitFetch /\ [][NextFetch]_vars

\* The projects and the users are fetched.
NextLists ==
  \/ GetProjects
  \/ GetUsers
  \/ ListRequest
  \/ FetchReturn
  \/ FetchTick

SpecLists == InitFetch /\ [][NextLists]_vars

\* ------------------------------------------------------- Authenticator
\* The two Authenticator classes of the repository.
Authenticators == {"frontend/auth.py", "frontend/components/auth.py"}

\* What a user types into the login form, and the roles a caller asks for.
Usernames ==
  {<<>>, <<"admin">>, <<"manager">>, <<"superadmin">>, <<"nobody">>, <<" ", "admin">>,
   <<"superadmin", " ">>}
Passwords ==
  {<<>>, <<"admin123">>, <<"manager123">>, <<"changeme">>, <<"wrong">>, <<"admin123", " ">>}
Roles == {<<"superadmin">>, <<"admin">>, <<"manager">>, <<"guest">>, <<>>}

\* str.strip()
RECURSIVE StripLeft(_)
StripLeft(str) ==
  IF str # <<>> /\ Head(str) = " " THEN StripLeft(Tail(str)) ELSE str
RECURSIVE StripRight(_)
StripRight(str) ==
  IF str # <<>> /\ str[Len(str)] = " "
    THEN StripRight(SubSeq(str, 1, Len(str) - 1)) ELSE str
Strip(str) == StripRight(StripLeft(str))

\* _hash_password: the sha256 digest of the password and the secret key.
HashPassword(password) == <<"sha256">> \o password

\* The credentials with no environment variable or secret set.
superadmin ==
  [username |-> <<"superadmin">>, password |-> <<"changeme">>, role |-> <<"superadmin">>]
regular_credentials ==
  [u \in {<<"admin">>, <<"manager">>} |->
     IF u = <<"admin">>
       THEN [password |-> HashPassword(<<"admin123">>), role |-> <<"admin">>]
       ELSE [password |-> HashPassword(<<"manager123">>), role |-> <<"manager">>]]

\* The comparison both classes make.
Matches(username, password) ==
  IF username = superadmin.username THEN password = superadmin.password
  ELSE IF username \in DOMAIN regular_credentials
    THEN HashPassword(password) = regular_credentials[username].password
    ELSE FALSE

\* check_password: frontend/auth.py compares what was typed;
\* frontend/components/auth.py rejects an empty field and strips both first.
CheckPassword(auth, username, password) ==
  IF auth = "frontend/auth.py" THEN Matches(username, password)
  ELSE IF username = <<>> \/ password = <<>> THEN FALSE
  ELSE Matches(Strip(username), Strip(password))

\* get_user_role
GetUserRole(username) ==
  IF username = superadmin.username THEN <<"superadmin">>
  ELSE IF username \in DOMAIN regular_credentials THEN regular_credentials[username].role
  ELSE <<>>

\* role_hierarchy, and role_hierarchy.get(role, 0)
role_hierarchy ==
  [r \in {<<"superadmin">>, <<"admin">>, <<"manager">>} |->
     IF r = <<"superadmin">> THEN 3 ELSE IF r = <<"admin">> THEN 2 ELSE 1]
Level(role) == IF role \in DOMAIN role_hierarchy THEN role_hierarchy[role] ELSE 0

\* Lines 65-68 of login: the keys are set if 'authenticated' is absent.
Initialized(s) == IF s.initialized THEN s ELSE Session(FALSE, None, None)

\* LoginOutcome with an st.error that names the field that was wrong.
LoginOutcome_NamesCause(auth, s, username, password) ==
  LET ok == CheckPassword(auth, username, password) IN
    [ok |-> ok,
     message |-> IF ok THEN ""
                 ELSE IF Strip(username) \in {superadmin.username} \cup DOMAIN regular_credentials
                   THEN "Invalid password" ELSE "Unknown user",
     session |-> IF ok THEN Session(TRUE, username, GetUserRole(username))
                       ELSE Initialized(s)]

\* What pressing Login does to session s: check_password's value, the message
\* st.error shows and the session afterwards, which keeps what was typed.
LoginOutcome(auth, s, username, password) ==
  LET ok == CheckPassword(auth, username, password) IN
    [ok |-> ok,
     message |-> IF ok THEN "" ELSE "Invalid credentials",
     session |-> IF ok THEN Session(TRUE, username, GetUserRole(username))
                       ELSE Initialized(s)]

\* login() runs with the Login button pressed: the form is there only for a
\* session that is not authenticated.
Login(username, password) ==
  /\ ~Initialized(session).authenticated
  /\ LET out == LoginOutcome(authenticator, session, username, password) IN
       /\ session' = out.session
       /\ submitted' = [NoSubmission EXCEPT !.op = "login", !.username = username,
                                            !.password = password, !.ok = out.ok,
                                            !.message = out.message,
                                            !.before = session]
  /\ UNCHANGED <<libVars, clientVars, cacheVars, pageVars, fetchVars, respVars, authenticator>>

SubmitLogin == \E username \in Usernames, password \in Passwords : Login(username, password)

\* logout()
Logout ==
  /\ session' = Session(FALSE, None, None)
  /\ submitted' = [NoSubmission EXCEPT !.op = "logout", !.before = session]
  /\ UNCHANGED <<libVars, clientVars, cacheVars, pageVars, fetchVars, respVars, authenticator>>

\* CheckRoleAccess with the comparison user_level > required_level.
CheckRoleAccess_Strict(required_role) ==
  /\ LET user_role == IF session.initialized THEN session.user_role ELSE <<>>
     IN submitted' = [NoSubmission EXCEPT !.op = "check_role_access",
                        !.required_role = required_role,
                        !.access = (Level(user_role) > Level(required_role)),
                        !.before = session]
  /\ UNCHANGED <<libVars, clientVars, cacheVars, pageVars, fetchVars, respVars, authenticator, session>>

\* check_role_access(required_role): st.session_state.get("user_role", "")
\* and the two levels.
CheckRoleAccess(required_role) ==
  /\ LET user_role == IF session.initialized THEN session.user_role ELSE <<>>
     IN submitted' = [NoSubmission EXCEPT !.op = "check_role_access",
                        !.required_role = required_role,
                        !.access = (Level(user_role) >= Level(required_role)),
                        !.before = session]
  /\ UNCHANGED <<libVars, clientVars, cacheVars, pageVars, fetchVars, respVars, authenticator, session>>

CallCheckRoleAccess == \E required_role \in Roles : CheckRoleAccess(required_role)

\* The application constructs one of the Authenticators; the one of
\* frontend/components/auth.py sets the session's keys in its constructor.
InitAuth ==
  /\ now = 0
  /\ clockOK = TRUE
  /\ active = {}
  /\ rate_limit_burst = 1
  /\ required_gap = 1
  /\ request_times = <<>>
  /\ last_request_time = 0
  /\ thread = [t \in Threads |-> IdleThread]
  /\ granted = <<>>
  /\ lost = FALSE
  /\ cache = EmptyDict
  /\ lock = NoThread
  /\ cthread = [t \in Threads |-> IdleCacheThread]
  /\ lastSet = EmptyDict
  /\ PageIdle
  /\ LibIdle
  /\ FetchIdle
  /\ ResponseIdle
  /\ authenticator \in Authenticators
  /\ session = IF authenticator = "frontend/auth.py"
                 THEN EmptySession ELSE Session(FALSE, <<>>, <<>>)
  /\ submitted = NoSubmission

NextAuth ==
  \/ SubmitLogin
  \/ Logout
  \/ CallCheckRoleAccess

SpecAuth == InitAuth /\ [][NextAuth]_vars

\* ------------------------------------ RedmineClient.get_project_tree
\* A project of projects.json: its id and, for a subproject, parent.id.
Project(id, parent) == [id |-> id, parent |-> parent]

\* The ids of projects: those listed are 1..n in the order of the list, and a
\* parent may be any of them or a project the list does not have.
ProjectIds == 1..(MaxProjects + 1)
Parents == {<<>>} \cup {<<id>> : id \in ProjectIds}
Listings ==
  UNION {{[i \in 1..n |-> Project(i, par[i])] : par \in [1..n -> Parents]} :
           n \in 0..MaxProjects}

\* project_map = {p['id']: p for p in projects}: the position of the project
\* with that id, the last one in the list.
ProjectMap(list) ==
  [id \in {list[i].id : i \in 1..Len(list)} |->
     CHOOSE i \in 1..Len(list) :
       /\ list[i].id = id
       /\ \A j \in (i + 1)..Len(list) : list[j].id # id]

\* tree = get_project_tree()
GetProjectTree ==
  /\ tree.pc = "idle"
  /\ tree' = [tree EXCEPT !.pc = "get_projects"]
  /\ UNCHANGED <<clientVars, cacheVars, pageVars, fetchVars, authVars, respVars, dataVars, projects, walk>>

\* Line 192: get_projects() returns the list or raises.
TreeGetProjects ==
  /\ tree.pc = "get_projects"
  /\ \E how \in {"ok", "error"} :
       tree' = IF how = "ok"
                 THEN [tree EXCEPT !.pc = "children", !.projects = projects,
                                   !.listings = @ + 1]
                 ELSE [tree EXCEPT !.pc = "raised", !.listings = @ + 1]
  /\ UNCHANGED <<clientVars, cacheVars, pageVars, fetchVars, authVars, respVars, dataVars, projects, walk>>

\* Lines 196-197: every project gets an empty 'children' list.
TreeChildren ==
  /\ tree.pc = "children"
  /\ tree' = [tree EXCEPT !.pc = "link", !.i = 1,
                          !.children = [i \in 1..Len(tree.projects) |-> <<>>]]
  /\ UNCHANGED <<clientVars, cacheVars, pageVars, fetchVars, authVars, respVars, dataVars, projects, walk>>

\* Link with a project whose parent is not listed taken for a root.
Link_OrphansAsRoots(tr, i) ==
  LET p == tr.projects[i]
      project_map == ProjectMap(tr.projects)
  IN IF p.parent # <<>> /\ p.parent[1] \in DOMAIN project_map
       THEN [tr EXCEPT !.children[project_map[p.parent[1]]] = Append(@, i)]
       ELSE [tr EXCEPT !.root_projects = Append(@, i)]

\* Lines 202-207: one turn of the loop, for the project at position i.
Link(tr, i) ==
  LET p == tr.projects[i]
      project_map == ProjectMap(tr.projects)
  IN IF p.parent # <<>>
       THEN IF p.parent[1] \in DOMAIN project_map
              THEN [tr EXCEPT !.children[project_map[p.parent[1]]] = Append(@, i)]
              ELSE tr
       ELSE [tr EXCEPT !.root_projects = Append(@, i)]

TreeLink ==
  /\ tree.pc = "link"
  /\ tree.i <= Len(tree.projects)
  /\ tree' = [Link(tree, tree.i) EXCEPT !.i = @ + 1]
  /\ UNCHANGED <<clientVars, cacheVars, pageVars, fetchVars, authVars, respVars, dataVars, projects, walk>>

\* Line 209
TreeReturn ==
  /\ tree.pc = "link"
  /\ tree.i > Len(tree.projects)
  /\ tree' = [tree EXCEPT !.pc = "done"]
  /\ UNCHANGED <<clientVars, cacheVars, pageVars, fetchVars, authVars, respVars, dataVars, projects, walk>>

\* ------------------------- RedmineClient.get_time_entries_for_project
\* What time_entries.json has for a project: entries with an id and the project.
TimeEntries(project_id) ==
  [k \in 1..(project_id % 3) |-> [id |-> 10 * project_id + k, project |-> project_id]]

\* A frame of get_time_entries_for_project.
\*   pc            position
\*   project_id, include_subprojects   the arguments
\*   entries, subprojects   the locals
\*   k             the position of the loop of line 232 in subprojects
Frame(project_id, include_subprojects) ==
  [pc |-> "get_time_entries", project_id |-> project_id,
   include_subprojects |-> include_subprojects, entries |-> <<>>,
   subprojects |-> <<>>, k |-> 0]

Top == walk.stack[Len(walk.stack)]
SetTop(f) == [walk.stack EXCEPT ![Len(walk.stack)] = f]

\* Line 229: the ids of the listed projects whose parent is project_id.
Subprojects(list, project_id) ==
  LET Sub(p) == p.parent # <<>> /\ p.parent[1] = project_id
      subs == SelectSeq(list, Sub)
  IN [i \in 1..Len(subs) |-> subs[i].id]

\* get_time_entries_for_project(project_id, start_date, end_date, include_subprojects)
GetTimeEntriesForProject ==
  /\ walk.pc = "idle"
  /\ \E project_id \in ProjectIds, include_subprojects \in BOOLEAN :
       walk' = [walk EXCEPT !.pc = "running", !.project_id = project_id,
                            !.include_subprojects = include_subprojects,
                            !.stack = <<Frame(project_id, include_subprojects)>>]
  /\ UNCHANGED <<clientVars, cacheVars, pageVars, fetchVars, authVars, respVars, dataVars, projects, tree>>

\* An exception leaves every frame.
Raised(w) == [w EXCEPT !.pc = "raised", !.stack = <<>>]

\* Lines 220-224: get_time_entries returns the project's entries or raises.
WalkGetTimeEntries ==
  /\ walk.pc = "running"
  /\ Top.pc = "get_time_entries"
  /\ \E how \in {"ok", "error"} :
       LET w == [walk EXCEPT !.fetched = Append(@, Top.project_id)] IN
         walk' = IF how = "ok"
                   THEN [w EXCEPT !.stack = SetTop(
                           [Top EXCEPT !.entries = @ \o TimeEntries(Top.project_id),
                                       !.pc = IF Top.include_subprojects
                                                THEN "get_projects" ELSE "return"])]
                   ELSE Raised(w)
  /\ UNCHANGED <<clientVars, cacheVars, pageVars, fetchVars, authVars, respVars, dataVars, projects, tree>>

\* WalkGetProjects with the project list fetched by the outermost call only and
\* reused at the levels below it.
WalkGetProjects_ListedOnce ==
  /\ walk.pc = "running"
  /\ Top.pc = "get_projects"
  /\ \E how \in {"ok", "error"} :
       LET w == [walk EXCEPT !.listings = IF Len(walk.stack) = 1 THEN @ + 1 ELSE @] IN
         walk' = IF how = "ok"
                   THEN [w EXCEPT !.stack = SetTop(
                           [Top EXCEPT !.subprojects = Subprojects(projects, Top.project_id),
                                       !.k = 1, !.pc = "loop"])]
                   ELSE Raised(w)
  /\ UNCHANGED <<clientVars, cacheVars, pageVars, fetchVars, authVars, respVars, dataVars, projects, tree>>

\* Lines 228-229: a fresh get_projects, and the subprojects found in it.
WalkGetProjects ==
  /\ walk.pc = "running"
  /\ Top.pc = "get_projects"
  /\ \E how \in {"ok", "error"} :
       LET w == [walk EXCEPT !.listings = @ + 1] IN
         walk' = IF how = "ok"
                   THEN [w EXCEPT !.stack = SetTop(
                           [Top EXCEPT !.subprojects = Subprojects(projects, Top.project_id),
                                       !.k = 1, !.pc = "loop"])]
                   ELSE Raised(w)
  /\ UNCHANGED <<clientVars, cacheVars, pageVars, fetchVars, authVars, respVars, dataVars, projects, tree>>

\* WalkRecurse with the inner call not including the subproject's subprojects.
WalkRecurse_Shallow ==
  /\ walk.pc = "running"
  /\ Top.pc = "loop"
  /\ Top.k <= Len(Top.subprojects)
  /\ Len(walk.stack) < MaxDepth
  /\ walk' = [walk EXCEPT !.stack = Append(@, Frame(Top.subprojects[Top.k], FALSE))]
  /\ UNCHANGED <<clientVars, cacheVars, pageVars, fetchVars, authVars, respVars, dataVars, projects, tree>>

\* Lines 232-238: the call for the next subproject.
WalkRecurse ==
  /\ walk.pc = "running"
  /\ Top.pc = "loop"
  /\ Top.k <= Len(Top.subprojects)
  /\ Len(walk.stack) < MaxDepth
  /\ walk' = [walk EXCEPT !.stack = Append(@, Frame(Top.subprojects[Top.k], TRUE))]
  /\ UNCHANGED <<clientVars, cacheVars, pageVars, fetchVars, authVars, respVars, dataVars, projects, tree>>

\* The loop of line 232 is over.
WalkLoopEnd ==
  /\ walk.pc = "running"
  /\ Top.pc = "loop"
  /\ Top.k > Len(Top.subprojects)
  /\ walk' = [walk EXCEPT !.stack = SetTop([Top EXCEPT !.pc = "return"])]
  /\ UNCHANGED <<clientVars, cacheVars, pageVars, fetchVars, authVars, respVars, dataVars, projects, tree>>

\* Line 240: the frame returns its entries; the caller extends its own by
\* them (line 233) and goes on with the next subproject.
WalkReturn ==
  /\ walk.pc = "running"
  /\ Top.pc = "return"
  /\ LET n == Len(walk.stack) IN
       walk' = IF n = 1
                 THEN [walk EXCEPT !.pc = "done", !.result = Top.entries, !.stack = <<>>]
                 ELSE [walk EXCEPT !.stack =
                         [SubSeq(walk.stack, 1, n - 1) EXCEPT
                            ![n - 1] = [@ EXCEPT !.entries = @ \o Top.entries,
                                                 !.k = @ + 1]]]
  /\ UNCHANGED <<clientVars, cacheVars, pageVars, fetchVars, authVars, respVars, dataVars, projects, tree>>

\* The upstream API has some projects; nothing else goes on.
InitTree ==
  /\ now = 0
  /\ clockOK = TRUE
  /\ active = {}
  /\ rate_limit_burst = 1
  /\ required_gap = 1
  /\ request_times = <<>>
  /\ last_request_time = 0
  /\ thread = [t \in Threads |-> IdleThread]
  /\ granted = <<>>
  /\ lost = FALSE
  /\ cache = EmptyDict
  /\ lock = NoThread
  /\ cthread = [t \in Threads |-> IdleCacheThread]
  /\ lastSet = EmptyDict
  /\ PageIdle
  /\ FetchIdle
  /\ AuthIdle
  /\ ResponseIdle
  /\ DataIdle
  /\ projects \in Listings
  /\ tree = IdleTree
  /\ walk = IdleWalk

NextTree ==
  \/ GetProjectTree
  \/ TreeGetProjects
  \/ TreeChildren
  \/ TreeLink
  \/ TreeReturn

SpecTree == InitTree /\ [][NextTree]_vars

NextWalk ==
  \/ GetTimeEntriesForProject
  \/ WalkGetTimeEntries
  \/ WalkGetProjects
  \/ WalkRecurse
  \/ WalkLoopEnd
  \/ WalkReturn

SpecWalk == InitTree /\ [][NextWalk]_vars

\* ------------------------------------- DataProcessor.process_time_entries
\* A datetime is a number of ticks, TicksPerDay of them a day: midnight and noon.
TicksPerDay == 2

\* Python and pandas values, each a record with one field that tells its type.
NaN == [nan |-> TRUE]
PyNone == [none |-> TRUE]
NaT == [nat |-> TRUE]
Str(s) == [str |-> s]
Num(n) == [num |-> n]
Dict(d) == [dict |-> d]
List(l) == [list |-> l]
IsoDate(day) == [isodate |-> day]
Datetime(ticks) == [datetime |-> ticks]
Is(x, type) == type \in DOMAIN x

\* bool(x): NaN is a float other than 0.
Truthy(x) ==
  CASE Is(x, "nan") -> TRUE
    [] Is(x, "none") -> FALSE
    [] Is(x, "str") -> x.str # ""
    [] Is(x, "num") -> x.num # 0
    [] Is(x, "dict") -> DOMAIN x.dict # {}
    [] Is(x, "list") -> x.list # <<>>
    [] OTHER -> TRUE

\* pd.DataFrame(list of dicts): the columns are the keys of the dicts, and a
\* row has NaN where its dict lacks the key.
Columns(dicts) == UNION {DOMAIN dicts[i] : i \in 1..Len(dicts)}
Cell(d, column) == IF column \in DOMAIN d THEN d[column] ELSE NaN

\* df[column].apply(lambda x: x.get(key) if x else None), for one cell: the
\* value, or the exception of a truthy x that is no dict.
GetOrNone(x, key) ==
  IF ~Truthy(x) THEN [value |-> PyNone, raised |-> ""]
  ELSE IF Is(x, "dict")
    THEN [value |-> IF key \in DOMAIN x.dict THEN x.dict[key] ELSE PyNone, raised |-> ""]
    ELSE [value |-> PyNone, raised |-> "AttributeError"]

\* get_custom_field_value with '1' for the default.
get_custom_field_value_DefaultOne(fields, field_id) ==
  IF ~Truthy(fields) THEN [value |-> Str("1"), raised |-> ""]
  ELSE IF ~Is(fields, "list") THEN [value |-> PyNone, raised |-> "TypeError"]
  ELSE LET found == {k \in 1..Len(fields.list) : fields.list[k].id = field_id} IN
    IF found = {} THEN [value |-> Str("1"), raised |-> ""]
    ELSE LET field == fields.list[CHOOSE k \in found : \A j \in found : k <= j]
         IN [value |-> IF "value" \in DOMAIN field THEN field.value ELSE Str("1"),
             raised |-> ""]

\* get_custom_field_value(fields, field_id): the value, or the exception of
\* iterating over something that is no list.
get_custom_field_value(fields, field_id) ==
  IF ~Truthy(fields) THEN [value |-> Str("0"), raised |-> ""]
  ELSE IF ~Is(fields, "list") THEN [value |-> PyNone, raised |-> "TypeError"]
  ELSE LET found == {k \in 1..Len(fields.list) : fields.list[k].id = field_id} IN
    IF found = {} THEN [value |-> Str("0"), raised |-> ""]
    ELSE LET field == fields.list[CHOOSE k \in found : \A j \in found : k <= j]
         IN [value |-> IF "value" \in DOMAIN field THEN field.value ELSE Str("0"),
             raised |-> ""]

\* df[column] == '1', for one cell.
EqualsOne(x) == Is(x, "str") /\ x.str = "1"

\* pd.to_datetime, for one cell: a date string is midnight of its day; what
\* does not parse raises, or is NaT with errors='coerce'.
ToDatetime(x, errors) ==
  CASE Is(x, "isodate") -> [value |-> Datetime(x.isodate * TicksPerDay), raised |-> ""]
    [] Is(x, "datetime") -> [value |-> x, raised |-> ""]
    [] Is(x, "nan") \/ Is(x, "none") \/ Is(x, "nat") -> [value |-> NaT, raised |-> ""]
    [] OTHER -> [value |-> NaT, raised |-> IF errors = "coerce" THEN "" ELSE "ValueError"]

\* pd.to_numeric(errors='coerce').fillna(0), for one cell
ToNumeric(x) == IF Is(x, "num") THEN x.num ELSE 0

\* The calendar columns read from spent_on: NaN for NaT.
Calendar(spent_on, unit) ==
  IF Is(spent_on, "datetime") THEN [of |-> spent_on.datetime \div TicksPerDay, unit |-> unit]
  ELSE [of |-> -1, unit |-> unit]

\* The first exception the column operations of lines 26-61 raise, "" if none.
\* A column no dict has raises KeyError; then each cell may raise.
RECURSIVE FirstRaised(_)
FirstRaised(steps) ==
  IF steps = <<>> THEN ""
  ELSE IF Head(steps) # "" THEN Head(steps) ELSE FirstRaised(Tail(steps))

CellRaised(x, column) ==
  CASE column \in {"project", "user", "activity"} -> GetOrNone(x, "name").raised
    [] column = "issue" -> GetOrNone(x, "id").raised
    [] column = "custom_fields" -> get_custom_field_value(x, 25).raised
    [] column \in {"spent_on", "created_on", "updated_on"} -> ToDatetime(x, "raise").raised
    [] OTHER -> ""

ColumnRaised(dicts, column) ==
  IF column \notin Columns(dicts) THEN "KeyError"
  ELSE FirstRaised([i \in 1..Len(dicts) |-> CellRaised(Cell(dicts[i], column), column)])

\* The row of the DataFrame for one dict, where nothing raised.
Row(d) ==
  LET custom_fields == Cell(d, "custom_fields")
      tms_payment == get_custom_field_value(custom_fields, 25).value
      hours_approved == get_custom_field_value(custom_fields, 26).value
      hours_loaded == get_custom_field_value(custom_fields, 80).value
      spent_on == ToDatetime(Cell(d, "spent_on"), "raise").value
  IN [id |-> Cell(d, "id"),
      project_name |-> GetOrNone(Cell(d, "project"), "name").value,
      user_name |-> GetOrNone(Cell(d, "user"), "name").value,
      activity_name |-> GetOrNone(Cell(d, "activity"), "name").value,
      issue_id |-> GetOrNone(Cell(d, "issue"), "id").value,
      tms_payment |-> tms_payment,
      hours_approved |-> hours_approved,
      error_text |-> get_custom_field_value(custom_fields, 62).value,
      hours_loaded |-> hours_loaded,
      work_type_code |-> get_custom_field_value(custom_fields, 86).value,
      is_paid |-> EqualsOne(tms_payment),
      is_approved |-> EqualsOne(hours_approved),
      is_loaded |-> EqualsOne(hours_loaded),
      spent_on |-> spent_on,
      created_on |-> ToDatetime(Cell(d, "created_on"), "raise").value,
      updated_on |-> ToDatetime(Cell(d, "updated_on"), "raise").value,
      week |-> Calendar(spent_on, "week"),
      month |-> Calendar(spent_on, "month"),
      quarter |-> Calendar(spent_on, "quarter"),
      year |-> Calendar(spent_on, "year"),
      hours |-> ToNumeric(Cell(d, "hours"))]

\* process_time_entries(time_entries): the rows, or the exception.
process_time_entries(entries) ==
  IF entries = <<>> THEN [raised |-> "", rows |-> <<>>]
  ELSE
    LET columns == <<"project", "user", "activity", "issue", "custom_fields",
                     "spent_on", "created_on", "updated_on", "hours">>
        raised == FirstRaised([k \in 1..Len(columns) |-> ColumnRaised(entries, columns[k])])
    IN IF raised # "" THEN [raised |-> raised, rows |-> <<>>]
       ELSE [raised |-> "", rows |-> [i \in 1..Len(entries) |-> Row(entries[i])]]

\* A custom field of a time entry, with and without its value.
CustomField(id, value) == [id |-> id, value |-> value]
ValuelessField(id) == [id |-> id]

\* The custom_fields lists of time entries: each of the three flags' fields
\* "1" or "0", lists without one or two of them, and lists with other values.
FlagValues == {"1", "0"}
FieldsOf(v25, v26, v80) ==
  (IF v25 = "absent" THEN <<>> ELSE <<CustomField(25, Str(v25))>>)
  \o <<CustomField(62, Str(""))>>
  \o (IF v26 = "absent" THEN <<>> ELSE <<CustomField(26, Str(v26))>>)
  \o (IF v80 = "absent" THEN <<>> ELSE <<CustomField(80, Str(v80))>>)
FieldLists ==
  {FieldsOf(a, b, c) : a \in FlagValues, b \in FlagValues, c \in FlagValues}
  \cup {FieldsOf("absent", "1", "0"), FieldsOf("1", "absent", "absent"),
        FieldsOf("0", "1", "absent"), <<>>,
        <<ValuelessField(25), CustomField(26, Str("true")), CustomField(80, Str("1 "))>>,
        <<CustomField(25, Num(1)), CustomField(26, PyNone), CustomField(80, Str("01"))>>,
        <<CustomField(25, Str("")), CustomField(26, List(<<Str("1")>>)),
          CustomField(80, Str("1"))>>}

\* A time entry as time_entries.json has it.
TimeEntry(id, custom_fields) ==
  [id |-> Num(id),
   project |-> Dict([id |-> Num(1), name |-> Str("Campaign_Management")]),
   issue |-> Dict([id |-> Num(216285)]),
   user |-> Dict([id |-> Num(129), name |-> Str("Alexander Kozlov")]),
   activity |-> Dict([id |-> Num(36), name |-> Str("Development")]),
   hours |-> Num(8),
   spent_on |-> IsoDate(1),
   created_on |-> IsoDate(1),
   updated_on |-> IsoDate(2),
   custom_fields |-> custom_fields]

Without(d, keys) == [k \in DOMAIN d \ keys |-> d[k]]

\* Entries that lack keys or have unusual values, among them the entry of the
\* client's tests, which has no custom_fields, issue, created_on or updated_on.
Malformed(id) ==
  LET e == TimeEntry(id, List(FieldsOf("1", "0", "absent"))) IN
    {Without(e, {"custom_fields", "issue", "created_on", "updated_on"}),
     Without(e, {"custom_fields"}),
     Without(e, {"issue"}),
     Without(e, {"created_on"}),
     Without(e, {"updated_on"}),
     [e EXCEPT !.issue = PyNone],
     [e EXCEPT !.custom_fields = PyNone],
     [e EXCEPT !.hours = Str("abc")],
     [e EXCEPT !.spent_on = Str("yesterday")]}

RawEntries ==
  {TimeEntry(1, List(fields)) : fields \in FieldLists}
  \cup {TimeEntry(2, List(FieldsOf("1", "1", "1")))}
  \cup Malformed(1)

\* The caller collects one more raw entry.
AddEntry ==
  /\ processed.pc = "idle"
  /\ Len(time_entries) < MaxEntries
  /\ \E e \in RawEntries : time_entries' = Append(time_entries, e)
  /\ UNCHANGED <<clientVars, cacheVars, pageVars, fetchVars, authVars, respVars, treeVars,
                 processed, issues, analysis>>

\* df = DataProcessor.process_time_entries(time_entries)
CallProcessTimeEntries ==
  /\ processed.pc = "idle"
  /\ LET df == process_time_entries(time_entries) IN
       processed' = [pc |-> "done", via |-> "process_time_entries",
                     raised |-> df.raised, rows |-> df.rows]
  /\ UNCHANGED <<clientVars, cacheVars, pageVars, fetchVars, authVars, respVars, treeVars,
                 time_entries, issues, analysis>>

\* Lines 104-114 of load_data: of the entries get_time_entries returned for
\* the selected projects, those of an id not seen before and of a selected project.
RECURSIVE AllEntries(_, _, _)
AllEntries(entries, project_ids, processed_entries) ==
  IF entries = <<>> THEN <<>>
  ELSE LET entry == Head(entries) IN
    IF entry.id.num \notin processed_entries /\ entry.project.dict.id.num \in project_ids
      THEN <<entry>> \o AllEntries(Tail(entries), project_ids,
                                   processed_entries \cup {entry.id.num})
      ELSE AllEntries(Tail(entries), project_ids, processed_entries)

\* DashboardApp.load_data with the project selected, up to line 116.
CallLoadData ==
  /\ processed.pc = "idle"
  /\ LET df == process_time_entries(AllEntries(time_entries, {1}, {})) IN
       processed' = [pc |-> "done", via |-> "load_data",
                     raised |-> df.raised, rows |-> df.rows]
  /\ UNCHANGED <<clientVars, cacheVars, pageVars, fetchVars, authVars, respVars, treeVars,
                 time_entries, issues, analysis>>

\* Nothing but the DataProcessor is in use.
InitData ==
  /\ now = 0
  /\ clockOK = TRUE
  /\ active = {}
  /\ rate_limit_burst = 1
  /\ required_gap = 1
  /\ request_times = <<>>
  /\ last_request_time = 0
  /\ thread = [t \in Threads |-> IdleThread]
  /\ granted = <<>>
  /\ lost = FALSE
  /\ cache = EmptyDict
  /\ lock = NoThread
  /\ cthread = [t \in Threads |-> IdleCacheThread]
  /\ lastSet = EmptyDict
  /\ PageIdle
  /\ FetchIdle
  /\ AuthIdle
  /\ ResponseIdle
  /\ TreeIdle
  /\ DataIdle

NextEntries ==
  \/ AddEntry
  \/ CallProcessTimeEntries
  \/ CallLoadData

SpecEntries == InitData /\ [][NextEntries]_vars

\* ----------------------------------- DataProcessor.analyze_project_status
\* An issue as issues.json has it; due_date is null for an issue without one.
Issue(status, due_date) ==
  [id |-> Num(1), subject |-> Str("Test Issue 1"), status |-> status,
   priority |-> Dict([name |-> Str("Normal")]), due_date |-> due_date]

IssueStatuses ==
  {Dict([name |-> Str("New")]), Dict([name |-> Str("In Progress")]),
   Dict([name |-> Str("Closed")]), PyNone}
DueDates == {PyNone, Str("soon")} \cup {IsoDate(day) : day \in 1..MaxDate}
RawIssues ==
  {Issue(Dict([name |-> Str("New")]), due_date) : due_date \in DueDates}
  \cup {Issue(status, IsoDate(1)) : status \in IssueStatuses}
  \cup {Without(Issue(Dict([name |-> Str("In Progress")]), PyNone), {"due_date"})}

\* The datetimes of a reference_date and of datetime.now().
AnalysisTimes == 0..((MaxDate + 1) * TicksPerDay)

\* x.get('name') if isinstance(x, dict) else default
NameOr(x, default) ==
  IF Is(x, "dict") THEN (IF "name" \in DOMAIN x.dict THEN x.dict.name ELSE PyNone)
  ELSE Str(default)

\* analyze_project_status that counts an issue due at ref_date as overdue.
analyze_project_status_DueCounts(list, ref_date) ==
  IF list = <<>>
    THEN [raised |-> "", total_issues |-> 0, open_issues |-> 0, overdue_issues |-> 0]
  ELSE IF \E column \in {"due_date", "status", "priority"} : column \notin Columns(list)
    THEN [raised |-> "KeyError", total_issues |-> 0, open_issues |-> 0, overdue_issues |-> 0]
  ELSE
    LET n == Len(list)
        due_date == [i \in 1..n |-> ToDatetime(Cell(list[i], "due_date"), "coerce").value]
        status_name == [i \in 1..n |-> NameOr(Cell(list[i], "status"), "Unknown")]
    IN [raised |-> "",
        total_issues |-> n,
        open_issues |->
          Cardinality({i \in 1..n : status_name[i] \in {Str("New"), Str("In Progress")}}),
        overdue_issues |->
          Cardinality({i \in 1..n : /\ Is(due_date[i], "datetime")
                                    /\ due_date[i].datetime <= ref_date})]

\* analyze_project_status(issues, reference_date=ref_date), without
\* time_entries_df: the counts of the dict returned, or the exception.
analyze_project_status(list, ref_date) ==
  IF list = <<>>
    THEN [raised |-> "", total_issues |-> 0, open_issues |-> 0, overdue_issues |-> 0]
  ELSE IF \E column \in {"due_date", "status", "priority"} : column \notin Columns(list)
    THEN [raised |-> "KeyError", total_issues |-> 0, open_issues |-> 0, overdue_issues |-> 0]
  ELSE
    LET n == Len(list)
        due_date == [i \in 1..n |-> ToDatetime(Cell(list[i], "due_date"), "coerce").value]
        status_name == [i \in 1..n |-> NameOr(Cell(list[i], "status"), "Unknown")]
    IN [raised |-> "",
        total_issues |-> n,
        open_issues |->
          Cardinality({i \in 1..n : status_name[i] \in {Str("New"), Str("In Progress")}}),
        overdue_issues |->
          Cardinality({i \in 1..n : /\ Is(due_date[i], "datetime")
                                    /\ due_date[i].datetime < ref_date})]

\* The caller collects one more issue.
AddIssue ==
  /\ analysis.pc = "idle"
  /\ Len(issues) < MaxIssues
  /\ \E issue \in RawIssues : issues' = Append(issues, issue)
  /\ UNCHANGED <<clientVars, cacheVars, pageVars, fetchVars, authVars, respVars, treeVars,
                 time_entries, processed, analysis>>

\* DataProcessor.analyze_project_status(issues, reference_date=...): line 114
\* takes datetime.now() for a reference_date of None.
CallAnalyzeProjectStatus ==
  /\ analysis.pc = "idle"
  /\ \E reference_date \in {<<>>} \cup {<<at>> : at \in AnalysisTimes} :
     \E datetime_now \in IF reference_date = <<>> THEN AnalysisTimes ELSE {0} :
       LET ref_date == IF reference_date = <<>> THEN datetime_now ELSE reference_date[1]
           out == analyze_project_status(issues, ref_date)
       IN analysis' = [pc |-> "done", reference_date |-> reference_date,
                       ref_date |-> ref_date, raised |-> out.raised,
                       total_issues |-> out.total_issues,
                       open_issues |-> out.open_issues,
                       overdue_issues |-> out.overdue_issues]
  /\ UNCHANGED <<clientVars, cacheVars, pageVars, fetchVars, authVars, respVars, treeVars,
                 time_entries, processed, issues>>

NextIssues ==
  \/ AddIssue
  \/ CallAnalyzeProjectStatus

SpecIssues == InitData /\ [][NextIssues]_vars

\* ------------------------------------------------ what the claims speak of
Count(seq, x) == Cardinality({i \in 1..Len(seq) : seq[i] = x})

AllTransport(seq) == \A i \in 1..Len(seq) : seq[i] = "transport"

\* A logical request that has ended, one way or the other.
RequestDone(t) == thread[t].pc = "done" /\ thread[t].caller = "request"

\* C1: a 429 response does not count against the transport-failure budget: a
\* transport failure is re-raised to the caller only when 3 attempts of the
\* logical request ended in a transport failure, however many 429s it received.
C1_429OutsideBudget ==
  \A t \in Threads :
    (RequestDone(t) /\ thread[t].result = "RequestException")
      => Count(thread[t].outcomes, "transport") = max_retries

\* C2: when every attempt fails at transport level (and the limiter grants each
\* of them) the request makes exactly 3 GETs, sleeps retry_delay * 1 and
\* retry_delay * 2 between them, does not sleep after the third and re-raises;
\* a successful attempt is the request's last: its body is returned.
C2_LinearBackoff ==
  \A t \in Threads :
    LET th == thread[t]
        n == Len(th.outcomes)
    IN /\ AllTransport(th.outcomes) =>
            /\ n <= max_retries
            /\ th.sleeps = [i \in 1..(IF n < max_retries THEN n ELSE max_retries - 1)
                              |-> retry_delay * i]
            /\ (th.pc = "mr_backoff" => th.sleep_len = retry_delay * n)
            /\ (RequestDone(t) /\ th.result # "RateLimitExceeded") =>
                 (n = max_retries /\ th.result = "RequestException")
       /\ \A i \in 1..n : th.outcomes[i] = "ok" =>
            (i = n /\ th.pc = "done" /\ th.result = "json")
       /\ th.result = "json" => (n >= 1 /\ n <= max_retries /\ th.outcomes[n] = "ok")

C2_Witness ==
  \E t \in Threads :
    /\ clockOK
    /\ RequestDone(t)
    /\ thread[t].result = "RequestException"
    /\ thread[t].outcomes = <<"transport", "transport", "transport">>
    /\ thread[t].sleeps = <<retry_delay, 2 * retry_delay>>

\* C3: every HTTP GET of a request is preceded by an acquisition of its own: the
\* GETs issued never outnumber the acquisitions granted, a GET is issued only
\* with a fresh grant in hand, and none is issued after RateLimitExceeded.
C3_GateBeforeEveryGet ==
  \A t \in Threads :
    LET th == thread[t] IN
    /\ Len(th.outcomes) <= th.req_grants
    /\ th.pc = "mr_get" => th.req_grants = Len(th.outcomes) + 1
    /\ th.pc # "mr_get" => th.req_grants = Len(th.outcomes)
    /\ th.result = "RateLimitExceeded" => th.pc = "done"

C3_Witness ==
  \E t \in Threads :
    /\ RequestDone(t)
    /\ thread[t].outcomes = <<"429", "transport", "ok">>
    /\ thread[t].req_grants = 3

\* C4: burst bound: with one caller and a clock that advances by the slept time,
\* at most rate_limit_burst granted timestamps lie in the trailing 1-second
\* window (now - 1s, now], at every moment.
C4_BurstBound ==
  (clockOK /\ Cardinality(active) = 1)
    => CountIn(granted, now - Window, now) <= rate_limit_burst

\* The window is full and the next caller is held back by the burst check.
C4_Witness ==
  /\ clockOK
  /\ rate_limit_burst = 2
  /\ CountIn(granted, now - Window, now) = rate_limit_burst
  /\ \E t \in Threads : thread[t].pc = "rl_burst_sleep"

\* C5: spacing bound: for every configured rate, any two consecutive granted
\* timestamps are at least 1 / rate_limit_per_second apart.
C5_SpacingBound ==
  (clockOK /\ Cardinality(active) = 1)
    => \A i \in 1..(Len(granted) - 1) : granted[i + 1] - granted[i] >= required_gap

\* The positions of _check_rate_limit at which the thread runs, and sleeps.
LimiterRunning == {"rl_enter", "rl_store", "rl_loop", "rl_restore", "rl_rate", "rl_grant"}
LimiterSleeping == {"rl_burst_sleep", "rl_rate_sleep"}

\* C6: a _check_rate_limit call makes at most 10 iterations, each with a bounded
\* sleep, and is never stuck: it has a next step wherever it runs and whenever a
\* sleep is over. It ends granting (the timestamp recorded) or raising
\* RateLimitExceeded, and it raises only with all 10 iterations used.
C6_BoundedAttempts ==
  \A t \in Threads :
    LET th == thread[t] IN
    /\ th.rl_attempt <= max_attempts
    /\ th.pc \in LimiterRunning => ENABLED LimiterStep(t)
    /\ (th.pc \in LimiterSleeping /\ Awake(t)) => ENABLED LimiterStep(t)
    /\ th.pc = "rl_burst_sleep" => (th.sleep_len > 0 /\ th.sleep_len <= Window)
    /\ th.pc = "rl_rate_sleep" => (th.sleep_len > 0 /\ th.sleep_len <= required_gap)
    /\ th.result = "RateLimitExceeded" => th.rl_attempt = max_attempts
    /\ (th.pc = "done" /\ th.caller = "direct") =>
         \/ th.result = "RateLimitExceeded"
         \/ /\ th.result = "granted"
            /\ request_times # <<>>
            /\ request_times[Len(request_times)] = last_request_time
            /\ granted # <<>>
            /\ granted[Len(granted)] = last_request_time

\* The clock stands still across the sleeps, the window stays full: the call
\* gives up after its 10th iteration.
C6_Witness ==
  \E t \in Threads :
    /\ ~clockOK
    /\ thread[t].pc = "done"
    /\ thread[t].result = "RateLimitExceeded"
    /\ thread[t].rl_attempt = max_attempts
    /\ Len(request_times) >= rate_limit_burst

\* C7: the limiter is safe for concurrent use: with several threads in
\* _check_rate_limit on one client no granted timestamp is lost from the window
\* and at most rate_limit_burst timestamps are granted in any trailing second.
C7_ConcurrentLimiter ==
  clockOK =>
    /\ ~lost
    /\ CountIn(granted, now - Window, now) <= rate_limit_burst

\* The threads inside a with block of the CacheManager.
InCache == {t \in Threads : cthread[t].pc \notin {"idle", "acquire"}}

\* A get, a set, an invalidate or a clear about to return.
Returning(t, op) == cthread[t].pc = "release" /\ cthread[t].op = op

\* C8: the CacheManager's methods exclude each other: one thread at a time is
\* inside a with block, and it holds the lock; a get returns absent or the data
\* of the latest set of its key that was neither removed since nor expired, never
\* another value.
C8_CacheLinearizable ==
  /\ Cardinality(InCache) <= 1
  /\ \A t \in Threads : (t \in InCache <=> lock = t)
  /\ \A t \in Threads :
       (Returning(t, "get") /\ cthread[t].ret # "None") =>
         /\ cthread[t].key \in DOMAIN lastSet
         /\ cthread[t].ret = lastSet[cthread[t].key].data
         /\ ~Expired(lastSet[cthread[t].key], cthread[t].at)

\* A get returns the data of an earlier set while the other thread waits for the lock.
C8_Witness ==
  \E t \in Threads, u \in Threads :
    /\ t # u
    /\ Returning(t, "get")
    /\ cthread[t].ret = "v2"
    /\ lastSet[cthread[t].key].timestamp < cthread[t].at
    /\ cthread[u].pc = "acquire"

\* C9: after set(key, v, ttl), with no set, invalidate or clear of the key since,
\* get(key) returns v while now - timestamp <= ttl; once now - timestamp > ttl it
\* returns absent and the entry is gone from the dict. A set leaves the key with
\* exactly its value, its timestamp and its ttl.
C9_GetAfterSet ==
  \A t \in Threads :
    LET c == cthread[t] IN
    /\ (Returning(t, "get") /\ c.key \in DOMAIN lastSet) =>
         IF Expired(lastSet[c.key], c.at)
           THEN c.ret = "None" /\ c.key \notin DOMAIN cache
           ELSE c.ret = lastSet[c.key].data /\ cache[c.key] = lastSet[c.key]
    /\ Returning(t, "set") =>
         /\ c.key \in DOMAIN cache
         /\ cache[c.key] = CacheEntry(c.value, c.at, c.ttl)

\* A get finds the entry one tick past its ttl and removes it.
C9_Witness ==
  \E t \in Threads :
    /\ Returning(t, "get")
    /\ cthread[t].key \in DOMAIN cthread[t].before
    /\ cthread[t].at - cthread[t].before[cthread[t].key].timestamp
         = cthread[t].before[cthread[t].key].ttl * TicksPerSecond + 1
    /\ cthread[t].before[cthread[t].key].ttl > 0
    /\ cthread[t].ret = "None"
    /\ cthread[t].key \notin DOMAIN cache

\* C10: invalidate(key) removes that key and leaves every other entry as it was
\* (the dict as it was when the key is missing); clear() leaves no entry; a get
\* of a key with no set since its invalidate or the clear returns absent.
C10_InvalidateClearFrame ==
  \A t \in Threads :
    LET c == cthread[t] IN
    /\ Returning(t, "invalidate") =>
         /\ DOMAIN cache = DOMAIN c.before \ {c.key}
         /\ \A k \in DOMAIN cache : cache[k] = c.before[k]
         /\ c.key \notin DOMAIN c.before => cache = c.before
    /\ Returning(t, "clear") => DOMAIN cache = {}
    /\ (Returning(t, "get") /\ c.key \notin DOMAIN lastSet) => c.ret = "None"

\* invalidate has removed its key from a dict of two entries.
C10_Witness ==
  \E t \in Threads :
    /\ Returning(t, "invalidate")
    /\ DOMAIN cthread[t].before = Keys
    /\ DOMAIN cache = Keys \ {cthread[t].key}

\* The lengths of the pages served, request by request.
ServedLens == [i \in 1..Len(server.log) |-> server.sizes[server.log[i]]]

\* The pages served add up to the total_count the first one stated, and not
\* before the last of them.
ExactPages ==
  /\ server.log # <<>>
  /\ server.total_count # <<>>
  /\ SumTo(ServedLens, Len(ServedLens)) = server.total_count[1]
  /\ \A k \in 1..(Len(ServedLens) - 1) : SumTo(ServedLens, k) < server.total_count[1]

\* C11: when the pages served add up to the first page's total_count exactly at
\* the last page, the list _get_paginated_response returns holds total_count
\* items, the items of the pages in page order, each once, and one logical
\* request was made per page.
C11_PagesConcatenated ==
  (pg.pc = "done" /\ pg.result = "returned" /\ ExactPages) =>
    /\ Len(pg.returned) = server.total_count[1]
    /\ pg.returned = [i \in 1..server.total_count[1] |-> i]
    /\ pg.requests = Len(server.sizes)

C11_Witness ==
  /\ pg.pc = "done"
  /\ pg.result = "returned"
  /\ ExactPages
  /\ Len(server.sizes) = MaxPages
  /\ server.sizes[1] > 0
  /\ Len(pg.returned) > MaxPageLen

\* The exceptions a page's request ends in.
RequestErrors == {"RedmineApiError", "RequestException", "RateLimitExceeded"}

\* C12: when the request of a page ends in an error, the paginated fetch ends
\* with that error, and the items of the pages before it are not returned.
C12_NoPartialPages ==
  [][\A t \in Threads :
       (pg.pc = "await" /\ thread[t].pc = "done" /\ thread[t].result \in RequestErrors
          /\ pg' # pg) =>
         (pg'.pc = "done" /\ pg'.result = thread[t].result /\ pg'.returned = <<>>)]_vars

C12_Witness ==
  /\ pg.pc = "done"
  /\ pg.result \in RequestErrors
  /\ pg.requests > 1
  /\ pg.all_items # <<>>
  /\ pg.returned = <<>>

\* C13: for an error status other than 429 _handle_response raises a
\* RedmineApiError with the response's status; its message is the fixed text of
\* 401, 403 and 404, 'Validation failed: ' and the joined `errors` for 422, and
\* for any other status the joined `errors`, or the HTTP error text when the
\* body has no `errors` array.
C13_ErrorMapping ==
  LET status == response.status_code
      has_errors == response.body.json /\ response.body.errors # <<>>
      joined == Join(response.body.errors[1])
  IN (handled.pc = "done" /\ status >= 400 /\ status # 429) =>
       /\ handled.raised
       /\ handled.status_code = status
       /\ status = 401 => handled.message = "Authentication failed. Check your API key."
       /\ status = 403 => handled.message = "Insufficient permissions for this request."
       /\ status = 404 => handled.message = "Resource not found."
       /\ (status = 422 /\ has_errors) =>
            handled.message = "Validation failed: " \o joined
       /\ (status \notin {401, 403, 404, 422} /\ has_errors) => handled.message = joined
       /\ (status \notin {401, 403, 404, 422} /\ ~has_errors) =>
            handled.message = HttpErrorText(status)

C13_Witness ==
  /\ handled.pc = "done"
  /\ handled.raised
  /\ response.status_code = 503
  /\ response.body.json
  /\ response.body.errors # <<>>
  /\ Len(response.body.errors[1]) = MaxErrors
  /\ handled.status_code = 503

\* C14: on a 429 response _make_request sleeps the seconds of the Retry-After
\* header, or retry_delay (1 s) without the header, and then issues the request
\* again (unless the limiter refuses the acquisition); a request whose last GET
\* succeeded returns the body.
C14_RetryAfter429 ==
  \A t \in active :
    LET th == thread[t] IN
    /\ th.pc = "mr_sleep429" =>
         th.sleep_len = (IF th.header = <<>> THEN 1 ELSE th.header[1]) * TicksPerSecond
    /\ (th.pc = "done" /\ th.caller = "request" /\ th.outcomes # <<>>
          /\ th.result # "RateLimitExceeded") =>
         th.outcomes[Len(th.outcomes)] # "429"
    /\ (th.pc = "done" /\ th.caller = "request" /\ th.outcomes # <<>>
          /\ th.outcomes[Len(th.outcomes)] = "ok") =>
         th.result = "json"

\* A cached fetch came back to its caller.
FetchDone(ops) == fetch.pc = "done" /\ fetch.op \in ops

\* The lookup of the fetch found an entry that was within its ttl.
FoundFresh ==
  /\ fetch.found # <<>>
  /\ fetch.at - fetch.found[1].timestamp <= fetch.found[1].ttl * TicksPerSecond

C16_ListsCached ==
  (cache_enabled /\ FetchDone(ListGets) /\ fetch.was_listed # <<>>
     /\ fetch.was_listed[1].op = fetch.op
     /\ fetch.at - fetch.was_listed[1].at <= HourTicks) =>
    /\ ~fetch.requested
    /\ fetch.result = "returned"
    /\ fetch.ret = fetch.was_listed[1].ret

\* C17: with the cache off the cache map stays empty, every get_activities and
\* get_issue_statuses call goes to the API, and invalidate_cache changes nothing.
C17_CacheDisabled ==
  ~cache_enabled =>
    /\ cache = EmptyDict
    /\ FetchDone(CachedGets) => fetch.requested
    /\ FetchDone({"invalidate_cache"}) => cache = fetch.before

C17_Witness ==
  /\ ~cache_enabled
  /\ FetchDone(CachedGets)
  /\ fetch.result = "returned"
  /\ fetch.requested
  /\ now >= HourTicks

\* C18: with the cache on, invalidate_cache(key) removes the entry of that key
\* and no other, invalidate_cache(None) removes every entry; a fetch of a key
\* that was not stored since its last invalidation goes to the API, and a fetch
\* of a key that was, within its ttl, is served the stored value.
C18_InvalidateCache ==
  cache_enabled =>
    /\ (FetchDone({"invalidate_cache"}) /\ fetch.arg # <<>>) =>
         cache = DictPop(fetch.before, fetch.arg[1])
    /\ (FetchDone({"invalidate_cache"}) /\ fetch.arg = <<>>) => cache = EmptyDict
    /\ (FetchDone(CachedGets) /\ fetch.key \notin DOMAIN fetch.was_set) => fetch.requested
    /\ (FetchDone(CachedGets) /\ fetch.key \in DOMAIN fetch.was_set
          /\ fetch.at - fetch.was_set[fetch.key].timestamp
               <= fetch.was_set[fetch.key].ttl * TicksPerSecond) =>
         (~fetch.requested /\ fetch.ret = fetch.was_set[fetch.key].data)

C18_Witness ==
  /\ cache_enabled
  /\ FetchDone({"invalidate_cache"})
  /\ fetch.arg = <<"activities">>
  /\ DOMAIN fetch.before = Keys
  /\ DOMAIN cache = {"issue_statuses"}

\* The identities the Authenticator knows, and the roles of the hierarchy.
KnownIdentities == {superadmin.username} \cup DOMAIN regular_credentials
SessionRoles == {<<"manager">>, <<"admin">>, <<"superadmin">>}

\* C19: the session starts unauthenticated; it becomes authenticated only by a
\* login for which check_password is true, and then holds that username and
\* get_user_role(username); logout leaves it unauthenticated with username and
\* role cleared; a failed login leaves it as it was; and an authenticated
\* session has a known identity and a role of the hierarchy.
C19_SessionStateMachine ==
  LET before == Initialized(submitted.before)
      after == Initialized(session)
  IN /\ submitted.op = "none" => ~after.authenticated
     /\ (after.authenticated /\ ~before.authenticated) =>
          /\ submitted.op = "login"
          /\ submitted.ok
          /\ after.username = submitted.username
          /\ after.user_role = GetUserRole(submitted.username)
     /\ (submitted.op = "login" /\ ~submitted.ok) => after = before
     /\ submitted.op = "logout" =>
          (~after.authenticated /\ after.username = None /\ after.user_role = None)
     /\ after.authenticated =>
          (after.username \in KnownIdentities /\ after.user_role \in SessionRoles)

\* The rank of a role, as the claim gives it.
Rank(role) ==
  CASE role = <<"superadmin">> -> 3
    [] role = <<"admin">> -> 2
    [] role = <<"manager">> -> 1
    [] OTHER -> 0

\* C20: check_role_access(required_role) is true exactly when the rank of the
\* session's role is at least the rank of required_role: a manager fails admin
\* and superadmin, an admin passes admin and manager and fails superadmin, a
\* superadmin passes all three.
C20_RoleAccess ==
  submitted.op = "check_role_access" =>
    LET role == Initialized(session).user_role
        required == submitted.required_role
        access == submitted.access
    IN /\ access <=> (Rank(role) >= Rank(required))
       /\ (role = <<"manager">> /\ required \in {<<"admin">>, <<"superadmin">>}) => ~access
       /\ (role = <<"admin">> /\ required \in {<<"admin">>, <<"manager">>}) => access
       /\ (role = <<"admin">> /\ required = <<"superadmin">>) => ~access
       /\ (role = <<"superadmin">> /\ required \in SessionRoles) => access

C20_Witness ==
  /\ submitted.op = "check_role_access"
  /\ session.authenticated
  /\ session.user_role = <<"admin">>
  /\ submitted.required_role = <<"superadmin">>
  /\ ~submitted.access

\* C21: a session whose role has rank 0 (unknown or absent, as in every
\* unauthenticated and every logged-out session) gets false from
\* check_role_access for every required_role, in the hierarchy or not.
C21_RankZeroFails ==
  (submitted.op = "check_role_access" /\ Rank(Initialized(session).user_role) = 0) =>
    ~submitted.access

\* What a failed login shows: check_password's value, the message, and
\* whether the session is authenticated or has a username or a role.
Unset == {None, <<>>}
Observable(out) ==
  [ok |-> out.ok, message |-> out.message,
   authenticated |-> out.session.authenticated,
   username_set |-> out.session.username \notin Unset,
   user_role_set |-> out.session.user_role \notin Unset]

\* C22: two failed logins, one with an unknown username and one with a known
\* username and a wrong password, have the same observable outcome: the
\* message 'Invalid credentials', check_password false and the session
\* unauthenticated with no username and no role.
C22_FailureCauseHidden ==
  LET s == Initialized(session)
      Try(u, p) == LoginOutcome(authenticator, session, u, p)
      unknown == {up \in Usernames \X Passwords :
                    /\ ~Try(up[1], up[2]).ok
                    /\ Strip(up[1]) \notin KnownIdentities}
      wrong == {up \in Usernames \X Passwords :
                    /\ ~Try(up[1], up[2]).ok
                    /\ Strip(up[1]) \in KnownIdentities}
  IN /\ ~s.authenticated =>
          \A a \in unknown, b \in wrong :
             /\ Observable(Try(a[1], a[2])) = Observable(Try(b[1], b[2]))
             /\ Observable(Try(a[1], a[2])) =
                  [ok |-> FALSE, message |-> "Invalid credentials",
                   authenticated |-> FALSE, username_set |-> FALSE,
                   user_role_set |-> FALSE]
     /\ (submitted.op = "login" /\ ~submitted.ok) =>
          /\ submitted.message = "Invalid credentials"
          /\ ~s.authenticated
          /\ s.username \in Unset
          /\ s.user_role \in Unset

C22_Witness ==
  /\ submitted.op = "login"
  /\ ~submitted.ok
  /\ submitted.username = <<"admin">>
  /\ submitted.password = <<"wrong">>
  /\ submitted.before.initialized
  /\ submitted.before.username = None
  /\ \E p \in Passwords :
       ~LoginOutcome(authenticator, session, <<"nobody">>, p).ok

\* The positions of the listed projects whose id is `id`.
Listed(list, id) == {k \in 1..Len(list) : list[k].id = id}

\* C23: the roots get_project_tree returns are exactly the projects without a
\* parent, each once; a project whose parent.id is the id of a listed project
\* is exactly once in that parent's children and in no other children list;
\* and the construction makes no call of the API after the one listing.
C23_ProjectForest ==
  LET list == tree.projects
      n == Len(list)
  IN /\ tree.pc = "done" =>
          /\ \A i \in 1..n :
               Count(tree.root_projects, i) = IF list[i].parent = <<>> THEN 1 ELSE 0
          /\ \A i \in 1..n :
               (list[i].parent # <<>> /\ Listed(list, list[i].parent[1]) # {}) =>
                 \A k \in 1..n :
                   Count(tree.children[k], i) =
                     IF k \in Listed(list, list[i].parent[1]) THEN 1 ELSE 0
          /\ list = projects
     /\ tree.pc \in {"children", "link", "done"} => tree.listings = 1

C23_Witness ==
  /\ tree.pc = "done"
  /\ Len(tree.projects) = MaxProjects
  /\ tree.root_projects = <<2>>
  /\ tree.children[2] = <<1>>
  /\ tree.projects[3].parent = <<MaxProjects + 1>>

\* The parent of a project id in the list, 0 if it has none there.
ParentOf(list, id) ==
  IF \E k \in 1..Len(list) : list[k].id = id /\ list[k].parent # <<>>
    THEN list[CHOOSE k \in 1..Len(list) : list[k].id = id /\ list[k].parent # <<>>].parent[1]
    ELSE 0

RECURSIVE AncestorAt(_, _, _)
AncestorAt(list, id, k) ==
  IF k = 0 \/ id = 0 THEN id ELSE AncestorAt(list, ParentOf(list, id), k - 1)

\* No project is its own ancestor.
Acyclic(list) ==
  \A i \in 1..Len(list) : \A k \in 1..Len(list) : AncestorAt(list, list[i].id, k) # list[i].id

RECURSIVE Flatten(_)
Flatten(seqs) == IF seqs = <<>> THEN <<>> ELSE Head(seqs) \o Flatten(Tail(seqs))

\* A project and its descendants, depth first, children in the list's order.
RECURSIVE DepthFirst(_, _)
DepthFirst(list, id) ==
  LET Child(p) == p.parent = <<id>>
      kids == SelectSeq(list, Child)
  IN <<id>> \o Flatten([j \in 1..Len(kids) |-> DepthFirst(list, kids[j].id)])

\* C24: in a hierarchy without cycles, with include_subprojects the call
\* returns the entries of p followed by those of each descendant in depth-first
\* order, having fetched the entries of p and of each descendant exactly once;
\* without include_subprojects it returns p's entries only.
C24_DepthFirstEntries ==
  (walk.pc = "done" /\ Acyclic(projects)) =>
    LET order == IF walk.include_subprojects
                   THEN DepthFirst(projects, walk.project_id)
                   ELSE <<walk.project_id>>
    IN /\ walk.result = Flatten([j \in 1..Len(order) |-> TimeEntries(order[j])])
       /\ walk.fetched = order
       /\ \A j \in 1..Len(order) : Count(walk.fetched, order[j]) = 1

C24_Witness ==
  /\ walk.pc = "done"
  /\ walk.include_subprojects
  /\ Acyclic(projects)
  /\ walk.project_id = 2
  /\ walk.fetched = <<2, 1, 3>>
  /\ projects[3].parent = <<1>>

\* The ids of raw entries and of rows, as numbers.
EntryIds(entries) == {entries[i].id.num : i \in 1..Len(entries)}

\* C25: the output of process_time_entries has one row per unique entry id,
\* also for a list in which an id occurs more than once: no two rows share an
\* id and every input id has a row.
C25_OneRowPerId ==
  (processed.pc = "done" /\ processed.via = "process_time_entries"
     /\ processed.raised = "") =>
    LET rows == processed.rows IN
      /\ \A i, j \in 1..Len(rows) : rows[i].id = rows[j].id => i = j
      /\ EntryIds(time_entries) = {rows[i].id.num : i \in 1..Len(rows)}

\* The entry has a custom field with this id whose value is the string "1".
HasOne(entry, field_id) ==
  /\ "custom_fields" \in DOMAIN entry
  /\ Is(entry.custom_fields, "list")
  /\ \E k \in 1..Len(entry.custom_fields.list) :
       LET field == entry.custom_fields.list[k] IN
         /\ field.id = field_id
         /\ "value" \in DOMAIN field
         /\ Is(field.value, "str")
         /\ field.value.str = "1"

\* The entry has a custom field with this id.
HasField(entry, field_id) ==
  /\ "custom_fields" \in DOMAIN entry
  /\ Is(entry.custom_fields, "list")
  /\ \E k \in 1..Len(entry.custom_fields.list) : entry.custom_fields.list[k].id = field_id

\* C26: the row of a raw entry has is_paid / is_approved / is_loaded true
\* exactly when the entry's custom field 25 / 26 / 80 is there with the value
\* "1"; any other value, no such field and an empty custom_fields give false,
\* and the value of a field that is not there is "0".
C26_FlagsByEquality ==
  (processed.pc = "done" /\ processed.via = "process_time_entries"
     /\ processed.raised = "") =>
    /\ Len(processed.rows) = Len(time_entries)
    /\ \A i \in 1..Len(time_entries) :
         LET entry == time_entries[i]
             row == processed.rows[i]
         IN /\ row.is_paid <=> HasOne(entry, 25)
            /\ row.is_approved <=> HasOne(entry, 26)
            /\ row.is_loaded <=> HasOne(entry, 80)
            /\ ~HasField(entry, 25) => row.tms_payment = Str("0")
            /\ ~HasField(entry, 26) => row.hours_approved = Str("0")
            /\ ~HasField(entry, 80) => row.hours_loaded = Str("0")

C26_Witness ==
  /\ processed.pc = "done"
  /\ processed.via = "process_time_entries"
  /\ processed.raised = ""
  /\ Len(processed.rows) = 2
  /\ processed.rows[1].is_paid
  /\ ~processed.rows[1].is_approved
  /\ processed.rows[1].is_loaded
  /\ time_entries[2].custom_fields = List(<<>>)
  /\ ~processed.rows[2].is_paid

\* C27: process_time_entries raises for no list of raw entries, also not for
\* entries without custom_fields, issue, created_on or updated_on; for the empty
\* list the result is empty.
C27_NeverRaises ==
  (processed.pc = "done" /\ processed.via = "process_time_entries") =>
    /\ processed.raised = ""
    /\ Len(processed.rows) = Len(time_entries)

\* The midnight that begins the day of a due_date string.
Midnight(day) == day * TicksPerDay

\* The issues with a due date before `at`, and the open ones.
OverdueAt(list, at) ==
  {i \in 1..Len(list) :
     /\ "due_date" \in DOMAIN list[i]
     /\ Is(list[i].due_date, "isodate")
     /\ Midnight(list[i].due_date.isodate) < at}
OpenIssues(list) ==
  {i \in 1..Len(list) :
     /\ Is(list[i].status, "dict")
     /\ list[i].status.dict.name \in {Str("New"), Str("In Progress")}}

C29_BodyOrError ==
  \A t \in Threads :
    RequestDone(t) =>
      /\ thread[t].result \in {"json"} \cup RequestErrors
      /\ thread[t].result = "json" =>
           (thread[t].outcomes # <<>> /\ thread[t].outcomes[Len(thread[t].outcomes)] = "ok")

\* C30: a paginated fetch ends after finitely many requests whatever the
\* server answers (short pages, empty pages, a total_count it never delivers):
\* a page that comes back either ends the fetch or leaves it nearer to its end,
\* with more items accumulated towards total_count, so that the loop cannot go
\* round for ever on answers that leave what it decides on unchanged.
C30_FetchTerminates ==
  [][\A t \in Threads :
       (pg.pc = "await" /\ thread[t].pc = "done" /\ pg' # pg) =>
         \/ pg'.pc = "done"
         \/ /\ pg'.total_count # <<>>
            /\ Len(pg'.all_items) < pg'.total_count[1]
            /\ Len(pg'.all_items) > Len(pg.all_items)]_vars

\* C31: an HTTP error status other than 429 is never retried: the response is
\* the request's last GET, _make_request raises RedmineApiError on it at once,
\* with no sleep after it and whatever is left of the attempts.
C31_HttpErrorNotRetried ==
  \A t \in Threads :
    LET th == thread[t]
        n == Len(th.outcomes)
    IN /\ \A i \in 1..n : th.outcomes[i] = "http_error" =>
            /\ i = n
            /\ th.pc = "done"
            /\ th.result = "RedmineApiError"
            /\ th.wake_at = 0
            /\ th.sleep_len = 0
            /\ Len(th.sleeps) = n - 1
            /\ th.req_grants = n
       /\ (RequestDone(t) /\ th.result = "RedmineApiError") =>
            (n >= 1 /\ th.outcomes[n] = "http_error")

\* The first response is an HTTP error: raised with two attempts unused.
C31_Witness ==
  \E t \in Threads :
    /\ RequestDone(t)
    /\ thread[t].result = "RedmineApiError"
    /\ thread[t].outcomes = <<"http_error">>
    /\ thread[t].attempt = 0
    /\ thread[t].attempt < max_retries - 1
    /\ thread[t].sleeps = <<>>

\* C32: RateLimitExceeded is fatal for the logical request: when
\* _check_rate_limit raises it inside _make_request the call is over at once,
\* with no GET for that attempt (the GETs made are those of the attempts before
\* it), no sleep of _make_request for it and the attempt counter where it was;
\* _make_request sleeps only on the answer of a GET of the running attempt.
C32_RateLimitExceededFatal ==
  \A t \in Threads :
    LET th == thread[t] IN
    /\ th.pc \in {"mr_backoff", "mr_sleep429"} =>
         (Len(th.outcomes) = th.attempt + 1 /\ Len(th.sleeps) = th.attempt + 1)
    /\ (th.caller = "request" /\ th.result = "RateLimitExceeded") =>
      /\ th.pc = "done"
      /\ th.rl_attempt = max_attempts
      /\ th.attempt < max_retries
      /\ Len(th.outcomes) = th.attempt
      /\ th.req_grants = th.attempt
      /\ Len(th.sleeps) = th.attempt
      /\ \A i \in 1..Len(th.outcomes) : th.outcomes[i] \in {"429", "transport"}

\* The first attempt failed at transport level and was slept on; the second
\* attempt's acquisition gives up and the request ends there.
C32_Witness ==
  \E t \in Threads :
    /\ RequestDone(t)
    /\ thread[t].result = "RateLimitExceeded"
    /\ thread[t].attempt = 1
    /\ thread[t].outcomes = <<"transport">>
    /\ thread[t].sleeps = <<retry_delay>>

\* int(total_count) of the first page, 0 when it states none.
FirstTotal == TotalCount(server.total_count)

\* C33: the stopping condition of a paginated fetch uses only the total_count
\* of the first page: what later pages state is ignored, a first page without
\* total_count counts as 0 (the fetch returns after that page, with its items),
\* and the fetch stops at the first page after which the accumulated item count
\* is >= the first total_count, and not before.
C33_FirstTotalCountOnly ==
  LET n == Len(server.sizes) IN
  /\ pg.total_count # <<>> => (n >= 1 /\ pg.total_count = <<FirstTotal>>)
  /\ (pg.pc = "await" /\ n >= 1) =>
       (Len(pg.all_items) = SumTo(server.sizes, n) /\ SumTo(server.sizes, n) < FirstTotal)
  /\ (pg.pc = "done" /\ pg.result = "returned") =>
       /\ n >= 1
       /\ pg.requests = n
       /\ SumTo(server.sizes, n) >= FirstTotal
       /\ \A k \in 1..(n - 1) : SumTo(server.sizes, k) < FirstTotal
       /\ pg.returned = [i \in 1..SumTo(server.sizes, n) |-> i]
  /\ (n >= 1 /\ server.total_count = <<>>) =>
       /\ n = 1
       /\ pg.pc = "done"
       /\ pg.result = "returned"
       /\ pg.requests = 1
       /\ pg.returned = PageItems(server.sizes, 1)

\* The second page states a larger total_count than the first did; the fetch
\* stops on it all the same, the first page's count being met.
C33_Witness ==
  /\ pg.pc = "done"
  /\ pg.result = "returned"
  /\ Len(server.sizes) = 2
  /\ server.total_count = <<3>>
  /\ server.stated = <<4>>
  /\ Len(pg.returned) = 3
  /\ Len(pg.returned) < server.stated[1]

\* C34: the k-th page request of a paginated fetch (k = 0, 1, 2, ...) is sent
\* with limit = 100 and offset = 100 * k together with the caller's filter
\* parameters, however many items the pages before it returned.
C34_PageParams ==
  \A i \in 1..Len(pg.sent) :
    LET k == i - 1 IN
    /\ DOMAIN pg.sent[i] = {"offset", "limit"} \cup DOMAIN pg.params
    /\ pg.sent[i].limit = 100
    /\ pg.sent[i].offset = 100 * k
    /\ \A key \in DOMAIN pg.params : pg.sent[i][key] = pg.params[key]

\* The second request of a filtered fetch, after a first page of one item.
C34_Witness ==
  /\ Len(pg.sent) = 2
  /\ pg.params # NoParams
  /\ server.sizes = <<1>>
  /\ Len(pg.all_items) = 1
  /\ pg.sent[2].offset = 100
  /\ pg.sent[2].project_id = 1

\* C35: cache expiry is lazy and per key: an entry leaves the dict only by a
\* get of its own key that finds it expired, by an invalidate of its key or by
\* a clear, and changes only by a set of its key; the passing of time and the
\* operations on other keys leave it in the dict as it is, expired or not.
C35_LazyExpiry ==
  [][\A k \in DOMAIN cache :
       LET gone == k \notin DOMAIN cache' IN
       (gone \/ cache'[k] # cache[k]) =>
         \E t \in Threads :
           /\ lock = t
           /\ \/ cthread[t].pc = "get_check" /\ cthread[t].key = k
                   /\ Expired(cache[k], now) /\ gone
              \/ cthread[t].pc = "set_store" /\ cthread[t].key = k /\ ~gone
              \/ cthread[t].pc = "invalidate_pop" /\ cthread[t].key = k /\ gone
              \/ cthread[t].pc = "clear_all" /\ gone]_vars

\* A get has removed its own expired entry; the other key's entry, expired as
\* well, is in the dict as it was.
C35_Witness ==
  \E t \in Threads, k \in Keys :
    /\ Returning(t, "get")
    /\ cthread[t].key # k
    /\ cthread[t].key \in DOMAIN cthread[t].before
    /\ cthread[t].key \notin DOMAIN cache
    /\ Expired(cthread[t].before[cthread[t].key], cthread[t].at)
    /\ k \in DOMAIN cache
    /\ Expired(cache[k], now)
    /\ cache[k] = cthread[t].before[k]

\* C36: a _check_rate_limit call that finds at least `burst` timestamps in the
\* trailing 1-second window does not go on to grant: it sleeps until the oldest
\* tracked timestamp leaves the window (oldest + 1s - now), prunes the window
\* anew and evaluates again; the spacing check and the recording of the request
\* are reached only with fewer than `burst` timestamps tracked.
C36_BurstSleep ==
  \A t \in Threads :
    LET th == thread[t] IN
    /\ th.pc \in {"rl_rate", "rl_rate_sleep", "rl_grant"} =>
         Len(request_times) < rate_limit_burst
    /\ th.pc = "rl_burst_sleep" =>
         /\ Len(request_times) >= rate_limit_burst
         /\ th.sleep_len = request_times[1] + Window - th.current_time
         /\ th.sleep_len > 0
         /\ th.wake_at = th.current_time + th.sleep_len
         /\ th.rl_attempt >= 1
    /\ th.pc = "rl_restore" =>
         /\ th.current_time = now
         /\ th.cutoff_time = now - Window
         /\ th.pruned = Prune(request_times, now - Window)
         /\ clockOK => Len(th.pruned) < Len(request_times)
    /\ (th.pc = "rl_loop" /\ th.rl_attempt >= 1 /\ clockOK) =>
         \A i \in 1..Len(request_times) : request_times[i] > now - Window

\* The window held `burst` timestamps, the call slept for part of a second
\* until the oldest had left it, and is about to record the request in its
\* second iteration.
C36_Witness ==
  \E t \in Threads :
    /\ clockOK
    /\ rate_limit_burst = 2
    /\ thread[t].pc = "rl_grant"
    /\ thread[t].rl_attempt = 2
    /\ Len(request_times) = 1
    /\ CountIn(granted, now - Window, now) = 1
    /\ Len(granted) >= 2
    /\ granted[1] + Window = now

\* The request of a get_activities or get_issue_statuses call has raised.
FetchFailed == FetchDone(CachedGets) /\ fetch.result \in FetchErrors

\* C37: a failed fetch never populates the cache: when the request of
\* get_activities or get_issue_statuses raises, the cache is left as the request
\* found it, with no entry for the key; it stays so until the caller has the
\* exception, and a call that finds no entry for its key makes the request.
C37_FailedFetchNotCached ==
  [][/\ (fetch.pc = "request" /\ fetch'.pc = "done") =>
          /\ fetch'.result \in FetchErrors
          /\ cache' = cache
          /\ lastSet' = lastSet
          /\ cache' = (IF cache_enabled
                         THEN CacheAfterGet(fetch.before, fetch.key, fetch.at)
                         ELSE fetch.before)
          /\ cache_enabled => fetch.key \notin DOMAIN cache'
     /\ (FetchFailed /\ fetch' # fetch) => (fetch' = IdleFetch /\ cache' = cache)
     /\ (fetch.pc = "lookup" /\ fetch' # fetch
           /\ (~cache_enabled \/ fetch.key \notin DOMAIN cache)) =>
          (fetch'.pc = "request" /\ cache' = cache)]_vars

\* The request of get_activities raised with the cache on: there is no entry
\* for activities, and the entry of issue_statuses is as the call found it.
C37_Witness ==
  /\ cache_enabled
  /\ FetchFailed
  /\ fetch.op = "get_activities"
  /\ fetch.requested
  /\ fetch.result = "RequestException"
  /\ "activities" \in DOMAIN fetch.was_set
  /\ "activities" \notin DOMAIN cache
  /\ "issue_statuses" \in DOMAIN cache
  /\ cache["issue_statuses"] = fetch.before["issue_statuses"]

\* How often the project at position i of the flat list occurs in the result:
\* among the roots and in the children lists.
Occurrences(tr, i) ==
  Cardinality({k \in 1..Len(tr.root_projects) : tr.root_projects[k] = i})
    + Cardinality({jk \in (1..Len(tr.projects)) \X (1..Len(tr.projects)) :
                     /\ jk[2] <= Len(tr.children[jk[1]])
                     /\ tr.children[jk[1]][jk[2]] = i})

\* C38: the forest get_project_tree returns holds every project of the flat
\* list exactly once, as a root or in exactly one children list, the projects
\* whose parent.id matches no listed project included.
C38_EveryProjectOnce ==
  tree.pc = "done" =>
    \A i \in 1..Len(tree.projects) : Occurrences(tree, i) = 1

\* C39: with include_subprojects=True get_time_entries_for_project fetches the
\* full project list anew at every level of the recursion: a call that returns
\* has made as many get_projects calls as it visited projects (the named one
\* and its descendants), each of them a fetch of its own that leaves the cache
\* alone; with include_subprojects=False it fetches no project list.
C39_ListingPerLevel ==
  /\ ~walk.include_subprojects => walk.listings = 0
  /\ walk.listings <= Len(walk.fetched)
  /\ walk.pc = "running" =>
       walk.listings = Len(walk.fetched)
         - Cardinality({j \in 1..Len(walk.stack) :
                          walk.stack[j].pc = "get_projects"
                            \/ (walk.stack[j].pc = "return"
                                  /\ ~walk.stack[j].include_subprojects)})
  /\ (walk.pc = "done" /\ walk.include_subprojects) =>
       /\ walk.listings = Len(walk.fetched)
       /\ Acyclic(projects) =>
            walk.listings = Len(DepthFirst(projects, walk.project_id))
  /\ cache = EmptyDict

\* A project with a child and a grandchild: three projects visited, the list
\* fetched three times.
C39_Witness ==
  /\ walk.pc = "done"
  /\ walk.include_subprojects
  /\ Acyclic(projects)
  /\ Len(DepthFirst(projects, walk.project_id)) = 3
  /\ \E i \in 1..Len(projects) :
       projects[i].parent # <<>> /\ ParentOf(projects, projects[i].parent[1]) = walk.project_id
  /\ walk.listings = 3

====
